---- MODULE Spec2Model ----
(***************************************************************************)
(* stylelint-rule-creator: the rule factory (createRule), the default-     *)
(* options engine (createDefaultRule) and its option validators, modelled  *)
(* as a state machine over one plugin activation and its stylesheet        *)
(* passes.                                                                 *)
(*                                                                         *)
(* Text is a sequence of fragments (one-character strings wherever the     *)
(* code looks inside the text: globs, paths, import parameters).           *)
(***************************************************************************)
EXTENDS Integers, Sequences, FiniteSets, TLC

VARIABLES rule, activation, optionsCallbackCalls, passes, warnings, probe

vars == <<rule, activation, optionsCallbackCalls, passes, warnings, probe>>

\* Number of stylesheet passes the host runs with one activation.
MaxPasses == 2

(***************************************************************************)
(* JavaScript values, as far as the options code can tell them apart.      *)
(***************************************************************************)
Undefined == [t |-> "undefined"]
Null == [t |-> "null"]
Bool(b) == [t |-> "boolean", b |-> b]
Num(n) == [t |-> "number", n |-> n]
Str(s) == [t |-> "string", s |-> s]
Arr(a) == [t |-> "array", a |-> a]
\* A property that is not an own property of an object.
Absent == [t |-> "absent"]
\* An options object: its own properties (Absent marks a missing one).
Obj(mode, startWith, fileExceptions, lineExceptions) ==
    [t |-> "object",
     o |-> [mode |-> mode, startWith |-> startWith,
            fileExceptions |-> fileExceptions, lineExceptions |-> lineExceptions]]

\* typeof: null and arrays are "object".
typeof(v) ==
    CASE v.t = "null" -> "object"
      [] v.t = "array" -> "object"
      [] OTHER -> v.t

\* ToBoolean, as used by !x, x && y, x || y and the conditional operator.
Truthy(v) ==
    CASE v.t = "undefined" -> FALSE
      [] v.t = "null" -> FALSE
      [] v.t = "boolean" -> v.b
      [] v.t = "number" -> v.n # 0
      [] v.t = "string" -> v.s # <<>>
      [] OTHER -> TRUE

hasOwnProperty(v, k) == v.t = "object" /\ v.o[k] # Absent

\* v.k for a value that is neither null nor undefined.
Get(v, k) == IF hasOwnProperty(v, k) THEN v.o[k] ELSE Undefined

\* The completion of a call: a returned value or a thrown error.
Return(v) == [threw |-> FALSE, ret |-> v]
Throw(e) == [threw |-> TRUE, error |-> e]

(***************************************************************************)
(* default-rule.ts: DefaultOptionMode and the validators.                  *)
(***************************************************************************)
OFF == <<"o", "f", "f">>
REQUIRE == <<"r", "e", "q", "u", "i", "r", "e">>
BLOCK == <<"b", "l", "o", "c", "k">>
DefaultOptionMode == {OFF, REQUIRE, BLOCK}

isDefaultOptionMode(input) ==
    IF typeof(input) # "string" THEN FALSE
    ELSE input.s \in DefaultOptionMode

isValidDefaultOptionsExceptions(input) ==
    IF ~Truthy(input) THEN TRUE
    ELSE IF input.t # "array" THEN FALSE
    ELSE IF \E i \in DOMAIN input.a : typeof(input.a[i]) # "string" THEN FALSE
    ELSE TRUE

\* validatingInput.mode is read right after the typeof test, so null, whose
\* typeof is "object", raises a TypeError there.
isValidDefaultOptionsObject(input) ==
    IF typeof(input) # "object" THEN Return(FALSE)
    ELSE IF input.t = "null" THEN Throw("TypeError")
    ELSE IF ~isDefaultOptionMode(Get(input, "mode")) THEN Return(FALSE)
    ELSE IF ~isValidDefaultOptionsExceptions(Get(input, "fileExceptions")) THEN Return(FALSE)
    ELSE IF ~isValidDefaultOptionsExceptions(Get(input, "lineExceptions")) THEN Return(FALSE)
    ELSE Return(TRUE)

(***************************************************************************)
(* glob-to-regexp, called with {globstar, extended: true} and no flags.    *)
(* The globs of the model are written over letters, digits, "_", "-", " ", *)
(* "@", the double quote and the characters the function treats specially  *)
(* below ("/", ".", "*", "?", "[", "]"); braces and commas, which extended *)
(* mode turns into groups, are outside this alphabet.                      *)
(***************************************************************************)
\* Index of the first character at or after i that is not "*".
RECURSIVE SkipStars(_, _)
SkipStars(glob, i) ==
    IF i <= Len(glob) /\ glob[i] = "*" THEN SkipStars(glob, i + 1) ELSE i

\* The pieces of the regular expression source, one per step of the loop over
\* the glob's characters, starting at character i.
RECURSIVE GlobPieces(_, _, _)
GlobPieces(glob, globstar, i) ==
    IF i > Len(glob) THEN <<>>
    ELSE LET c == glob[i] IN
      IF c = "*" THEN
        LET next == SkipStars(glob, i)
            starCount == next - i
            prevIsEdge == i = 1 \/ glob[i - 1] = "/"
            nextIsEdge == next > Len(glob) \/ glob[next] = "/"
        IN IF ~globstar THEN <<[k |-> "all"]>> \o GlobPieces(glob, globstar, next)
           ELSE IF starCount > 1 /\ prevIsEdge /\ nextIsEdge
                \* a globstar segment; the "/" after it is moved over
                THEN <<[k |-> "globstar"]>> \o GlobPieces(glob, globstar, next + 1)
                ELSE <<[k |-> "segment"]>> \o GlobPieces(glob, globstar, next)
      ELSE IF c = "?" THEN <<[k |-> "any"]>> \o GlobPieces(glob, globstar, i + 1)
      ELSE IF c \in {"[", "]"} THEN <<[k |-> "raw", c |-> c]>> \o GlobPieces(glob, globstar, i + 1)
      \* an escaped character or an ordinary one: it matches itself
      ELSE <<[k |-> "lit", c |-> c]>> \o GlobPieces(glob, globstar, i + 1)

\* Index of the first raw "]" at or after i, or 0.
RECURSIVE ClassEnd(_, _)
ClassEnd(pieces, i) ==
    IF i > Len(pieces) THEN 0
    ELSE IF pieces[i].k = "raw" /\ pieces[i].c = "]" THEN i
    ELSE ClassEnd(pieces, i + 1)

\* new RegExp("^" + reStr + "$"): a raw "[" opens a character class that the
\* next "]" closes; a class that is never closed is a SyntaxError.
RECURSIVE NewRegExp(_, _)
NewRegExp(pieces, i) ==
    IF i > Len(pieces) THEN Return(<<>>)
    ELSE IF pieces[i].k = "raw" /\ pieces[i].c = "["
    THEN LET end == ClassEnd(pieces, i + 1) IN
         IF end = 0 THEN Throw("SyntaxError")
         ELSE LET rest == NewRegExp(pieces, end + 1)
                  members == {pieces[j].c : j \in {x \in (i + 1)..(end - 1) : pieces[x].k = "lit"}}
              IN IF rest.threw THEN rest
                 ELSE Return(<<[k |-> "class", cs |-> members]>> \o rest.ret)
    ELSE LET rest == NewRegExp(pieces, i + 1)
             tok == IF pieces[i].k = "raw" THEN [k |-> "lit", c |-> pieces[i].c] ELSE pieces[i]
         IN IF rest.threw THEN rest ELSE Return(<<tok>> \o rest.ret)

\* globToRegExp(glob, {globstar, extended: true}).
globToRegExp(glob, globstar) ==
    IF typeof(glob) # "string" THEN Throw("TypeError")
    ELSE LET re == NewRegExp(GlobPieces(glob.s, globstar, 1), 1) IN
         IF re.threw THEN re ELSE Return([kind |-> "RegExp", tokens |-> re.ret])

\* Positions a globstar token can reach from j: it repeats "a run without
\* slashes, then a slash or the end of the input" any number of times.
GlobstarEnds(input, j) ==
    {j} \cup {q + 1 : q \in {x \in j..Len(input) : input[x] = "/"}} \cup {Len(input) + 1}

\* Whether tokens i.. match input j.. up to its end (the expression is anchored).
RECURSIVE MatchFrom(_, _, _, _)
MatchFrom(tokens, i, input, j) ==
    IF i > Len(tokens) THEN j = Len(input) + 1
    ELSE LET tok == tokens[i] IN
      CASE tok.k = "lit" -> j <= Len(input) /\ input[j] = tok.c /\ MatchFrom(tokens, i + 1, input, j + 1)
        [] tok.k = "any" -> j <= Len(input) /\ MatchFrom(tokens, i + 1, input, j + 1)
        [] tok.k = "class" -> j <= Len(input) /\ input[j] \in tok.cs /\ MatchFrom(tokens, i + 1, input, j + 1)
        [] tok.k = "all" -> \E e \in j..(Len(input) + 1) : MatchFrom(tokens, i + 1, input, e)
        [] tok.k = "segment" ->
             \E e \in j..(Len(input) + 1) :
                /\ \A x \in j..(e - 1) : input[x] # "/"
                /\ MatchFrom(tokens, i + 1, input, e)
        [] tok.k = "globstar" -> \E e \in GlobstarEnds(input, j) : MatchFrom(tokens, i + 1, input, e)

\* input.match(regExp) is truthy.
Matches(input, regExp) == MatchFrom(regExp.tokens, 1, input, 1)

\* String.prototype.toLowerCase on one character.
UpperCase == <<"A", "B", "C", "D", "E", "F", "G", "H", "I", "J", "K", "L", "M",
               "N", "O", "P", "Q", "R", "S", "T", "U", "V", "W", "X", "Y", "Z">>
LowerCase == <<"a", "b", "c", "d", "e", "f", "g", "h", "i", "j", "k", "l", "m",
               "n", "o", "p", "q", "r", "s", "t", "u", "v", "w", "x", "y", "z">>
toLowerCase(c) ==
    IF \E i \in DOMAIN UpperCase : UpperCase[i] = c
    THEN LowerCase[CHOOSE i \in DOMAIN UpperCase : UpperCase[i] = c]
    ELSE c

\* .replace(/\\+/g, "/"): every run of backslashes becomes one "/".
RECURSIVE CollapseBackslashes(_)
CollapseBackslashes(path) ==
    IF path = <<>> THEN <<>>
    ELSE IF path[1] = "\\"
    THEN LET rest == CollapseBackslashes(Tail(path)) IN
         IF Len(path) > 1 /\ path[2] = "\\" THEN rest ELSE <<"/">> \o rest
    ELSE <<path[1]>> \o CollapseBackslashes(Tail(path))

\* Index of the first character at or after i that is not a backslash.
RECURSIVE SkipBackslashes(_, _)
SkipBackslashes(path, i) ==
    IF i <= Len(path) /\ path[i] = "\\" THEN SkipBackslashes(path, i + 1) ELSE i

\* .replace(/^(.+?)\:\\+/, "/" + lower-cased group + "/"): a leading drive
\* prefix such as C:\ becomes /c/.
ReplaceDrive(path) ==
    LET colons == {i \in 2..(Len(path) - 1) : path[i] = ":" /\ path[i + 1] = "\\"} IN
    IF colons = {} THEN path
    ELSE LET colon == CHOOSE i \in colons : \A j \in colons : i <= j
             drive == [k \in 1..(colon - 1) |-> toLowerCase(path[k])]
         IN <<"/">> \o drive \o <<"/">>
                \o SubSeq(path, SkipBackslashes(path, colon + 1), Len(path))

\* Variant: the path is handed back as it came.
toPosixPath_Unchanged(path) == path

\* toPosixPath (augment-vir)
toPosixPath(path) == CollapseBackslashes(ReplaceDrive(path))

(***************************************************************************)
(* default-rule.ts: exceptions, messages and the run decision.             *)
(***************************************************************************)
Quote == "\""

\* JSON.stringify(value, null, 4), without the white space it inserts; the
\* properties of an object in the order mode, startWith, fileExceptions,
\* lineExceptions. An undefined property is left out, an undefined element
\* of an array becomes null.
OptionKeys == <<"mode", "startWith", "fileExceptions", "lineExceptions">>

RECURSIVE JSONstringify(_)
RECURSIVE StringifyElements(_, _)
RECURSIVE StringifyProperties(_, _, _)
JSONstringify(v) ==
    CASE v.t = "string" -> <<Quote>> \o v.s \o <<Quote>>
      [] v.t = "number" -> <<ToString(v.n)>>
      [] v.t = "boolean" -> IF v.b THEN <<"true">> ELSE <<"false">>
      [] v.t = "array" -> <<"[">> \o StringifyElements(v.a, 1) \o <<"]">>
      [] v.t = "object" -> <<"{">> \o StringifyProperties(v, 1, TRUE) \o <<"}">>
      [] OTHER -> <<"null">>
StringifyElements(a, i) ==
    IF i > Len(a) THEN <<>>
    ELSE (IF i > 1 THEN <<",">> ELSE <<>>) \o JSONstringify(a[i]) \o StringifyElements(a, i + 1)
StringifyProperties(v, i, first) ==
    IF i > Len(OptionKeys) THEN <<>>
    ELSE LET key == OptionKeys[i]
             val == Get(v, key) IN
         IF val = Undefined THEN StringifyProperties(v, i + 1, first)
         ELSE (IF first THEN <<>> ELSE <<",">>) \o <<Quote, key, Quote, ":">>
              \o JSONstringify(val) \o StringifyProperties(v, i + 1, FALSE)

\* `${value}` for the values a falsy option can be.
TemplateString(v) ==
    CASE v.t = "string" -> v.s
      [] v.t = "number" -> <<ToString(v.n)>>
      [] v.t = "boolean" -> IF v.b THEN <<"true">> ELSE <<"false">>
      [] v.t = "array" -> <<"[array]">>
      [] v.t = "object" -> <<"[object Object]">>
      [] OTHER -> <<v.t>>

\* invalidOptionsMessages.invalidOptions(option)
invalidOptions(option) ==
    <<"Invalid options object:\n">>
        \o (IF Truthy(option) THEN JSONstringify(option) ELSE TemplateString(option))

\* stylelint's utils.ruleMessages: each formatter's text gets " (ruleName)".
ruleMessages(ruleName, text) == text \o <<" (", ruleName, ")">>

\* createRule's messageCallbacks: utils.ruleMessages over the rule's messages.
\* text is what the original formatter makes of the arguments it is handed.
messageCallbacks(ruleName, text) == ruleMessages(ruleName, text)

\* Variant: the formatters handed to the rule callback are wrapped once more.
callbackMessages_WrappedTwice(ruleName, text) ==
    ruleMessages(ruleName, messageCallbacks(ruleName, text))

\* The messageCallbacks argument of inputObject.ruleCallback.
callbackMessages(ruleName, text) == messageCallbacks(ruleName, text)

\* The messages property of the rule object createRule returns.
ruleObjectMessages(ruleName, text) == messageCallbacks(ruleName, text)

\* Variant: only the first exception of the list is tried.
shouldBeExempt_FirstOnly(input, exceptions) ==
    IF ~Truthy(input) \/ exceptions = <<>> THEN FALSE
    ELSE exceptions[1].kind # "Error" /\ Matches(input.s, exceptions[1])

shouldBeExempt(input, exceptions) ==
    IF ~Truthy(input) THEN FALSE
    ELSE \E i \in DOMAIN exceptions :
            /\ exceptions[i].kind # "Error"
            /\ Matches(input.s, exceptions[i])

\* A TypeError of globToRegExp is kept in the entry's place; any other error
\* is thrown again and ends the map.
createExceptionGlobRegExpArray(exceptions, globstar) ==
    IF ~Truthy(exceptions) \/ exceptions.t # "array" THEN Return(<<>>)
    ELSE LET compiled == [i \in DOMAIN exceptions.a |-> globToRegExp(exceptions.a[i], globstar)]
             rethrown == {i \in DOMAIN compiled : compiled[i].threw /\ compiled[i].error # "TypeError"}
         IN IF rethrown # {}
            THEN Throw(compiled[CHOOSE i \in rethrown : \A j \in rethrown : i <= j].error)
            ELSE Return([i \in DOMAIN compiled |->
                            IF compiled[i].threw
                            THEN [kind |-> "Error", name |-> compiled[i].error]
                            ELSE compiled[i].ret])

\* Variant: the options are validated before the mode is compared with "off".
shouldRunDefaultRule_ValidatesFirst(ruleOptions, ruleName, inputs) ==
    IF ~Truthy(ruleOptions) THEN [ret |-> FALSE, reported |-> <<>>, log |-> <<>>]
    ELSE IF ~isValidDefaultOptionsObject(ruleOptions).ret
    THEN [ret |-> FALSE,
          reported |-> <<[message |-> callbackMessages(ruleName, invalidOptions(ruleOptions)), node |-> 0]>>,
          log |-> <<"isValidDefaultOptionsObject">>]
    ELSE IF Get(ruleOptions, "mode") = Str(OFF)
    THEN [ret |-> FALSE, reported |-> <<>>, log |-> <<"isValidDefaultOptionsObject">>]
    ELSE IF /\ Truthy(inputs.from)
            /\ \/ shouldBeExempt(inputs.from, inputs.exceptionRegExps)
               \/ shouldBeExempt(Str(toPosixPath(inputs.from.s)), inputs.exceptionRegExps)
    THEN [ret |-> FALSE, reported |-> <<>>, log |-> <<"isValidDefaultOptionsObject", "shouldBeExempt">>]
    ELSE [ret |-> TRUE, reported |-> <<>>, log |-> <<"isValidDefaultOptionsObject", "shouldBeExempt">>]

\* Variant: the file exceptions are not consulted.
shouldRunDefaultRule_NoFileCheck(ruleOptions, ruleName, inputs) ==
    IF ~Truthy(ruleOptions) THEN [ret |-> FALSE, reported |-> <<>>, log |-> <<>>]
    ELSE IF Get(ruleOptions, "mode") = Str(OFF) THEN [ret |-> FALSE, reported |-> <<>>, log |-> <<>>]
    ELSE IF ~isValidDefaultOptionsObject(ruleOptions).ret
    THEN [ret |-> FALSE,
          reported |-> <<[message |-> callbackMessages(ruleName, invalidOptions(ruleOptions)), node |-> 0]>>,
          log |-> <<"isValidDefaultOptionsObject">>]
    ELSE [ret |-> TRUE, reported |-> <<>>, log |-> <<"isValidDefaultOptionsObject">>]

\* Variant: only the path in its posix form is tried against the exceptions.
shouldRunDefaultRule_PosixOnly(ruleOptions, ruleName, inputs) ==
    IF ~Truthy(ruleOptions) THEN [ret |-> FALSE, reported |-> <<>>, log |-> <<>>]
    ELSE IF Get(ruleOptions, "mode") = Str(OFF) THEN [ret |-> FALSE, reported |-> <<>>, log |-> <<>>]
    ELSE IF ~isValidDefaultOptionsObject(ruleOptions).ret
    THEN [ret |-> FALSE,
          reported |-> <<[message |-> callbackMessages(ruleName, invalidOptions(ruleOptions)), node |-> 0]>>,
          log |-> <<"isValidDefaultOptionsObject">>]
    ELSE IF /\ Truthy(inputs.from)
            /\ shouldBeExempt(Str(toPosixPath(inputs.from.s)), inputs.exceptionRegExps)
    THEN [ret |-> FALSE, reported |-> <<>>, log |-> <<"isValidDefaultOptionsObject", "shouldBeExempt">>]
    ELSE [ret |-> TRUE, reported |-> <<>>, log |-> <<"isValidDefaultOptionsObject", "shouldBeExempt">>]

\* The decision of shouldRunDefaultRule and the violations it reports.
\* ruleOptions is never a boolean here. inputs: [from, exceptionRegExps].
shouldRunDefaultRule(ruleOptions, ruleName, inputs) ==
    IF ~Truthy(ruleOptions) THEN [ret |-> FALSE, reported |-> <<>>, log |-> <<>>]
    ELSE IF Get(ruleOptions, "mode") = Str(OFF) THEN [ret |-> FALSE, reported |-> <<>>, log |-> <<>>]
    ELSE IF ~isValidDefaultOptionsObject(ruleOptions).ret
    THEN [ret |-> FALSE,
          reported |-> <<[message |-> callbackMessages(ruleName, invalidOptions(ruleOptions)), node |-> 0]>>,
          log |-> <<"isValidDefaultOptionsObject">>]
    ELSE IF /\ Truthy(inputs.from)
            /\ \/ shouldBeExempt(inputs.from, inputs.exceptionRegExps)
               \/ shouldBeExempt(Str(toPosixPath(inputs.from.s)), inputs.exceptionRegExps)
    THEN [ret |-> FALSE, reported |-> <<>>, log |-> <<"isValidDefaultOptionsObject", "shouldBeExempt">>]
    ELSE [ret |-> TRUE, reported |-> <<>>, log |-> <<"isValidDefaultOptionsObject", "shouldBeExempt">>]

optionsIsDisabled(input) ==
    /\ Truthy(input)
    /\ ~hasOwnProperty(input, "fileExceptions")
    /\ ~hasOwnProperty(input, "lineExceptions")

NoExceptions == [parsedFileExceptions |-> <<>>, parsedLineExceptions |-> <<>>]

\* createDefaultRule's optionsCallback(options)
defaultOptionsCallback(options) ==
    IF typeof(options) = "boolean" \/ optionsIsDisabled(options) THEN Return(NoExceptions)
    ELSE LET files == createExceptionGlobRegExpArray(Get(options, "fileExceptions"), TRUE)
             lines == createExceptionGlobRegExpArray(Get(options, "lineExceptions"), FALSE)
         IN IF files.threw THEN files
            ELSE IF lines.threw THEN lines
            ELSE Return([parsedFileExceptions |-> files.ret, parsedLineExceptions |-> lines.ret])

(***************************************************************************)
(* The rules of the repository's test directory.                          *)
(***************************************************************************)
\* s.split(" ")
RECURSIVE SplitSpaces(_, _)
SplitSpaces(s, part) ==
    IF s = <<>> THEN <<part>>
    ELSE IF Head(s) = " " THEN <<part>> \o SplitSpaces(Tail(s), <<>>)
    ELSE SplitSpaces(Tail(s), Append(part, Head(s)))

IsQuote(c) == c \in {"'", Quote}
StartsWithQuote(param) == param # <<>> /\ IsQuote(param[1])
NotQuote(c) == ~IsQuote(c)

\* extractImportFileParam(atRule)
extractImportFileParam(atRule) ==
    LET quoted == SelectSeq(SplitSpaces(atRule.params, <<>>), StartsWithQuote) IN
    IF quoted = <<>> THEN Throw("Error") ELSE Return(quoted[1])

\* path.basename on a posix path
RECURSIVE StripTrailingSlashes(_)
StripTrailingSlashes(path) ==
    IF Len(path) > 1 /\ path[Len(path)] = "/"
    THEN StripTrailingSlashes(SubSeq(path, 1, Len(path) - 1))
    ELSE path
RECURSIVE LastSlash(_, _)
LastSlash(path, i) ==
    IF i = 0 THEN 0 ELSE IF path[i] = "/" THEN i ELSE LastSlash(path, i - 1)
basename(path) ==
    LET p == StripTrailingSlashes(path) IN
    IF p = <<"/">> THEN <<>> ELSE SubSeq(p, LastSlash(p, Len(p)) + 1, Len(p))

startsWith(text, prefix) ==
    Len(prefix) <= Len(text) /\ SubSeq(text, 1, Len(prefix)) = prefix

\* node.toString() of an at-rule or a declaration
NodeToString(node) ==
    IF node.type = "atrule" THEN <<"@">> \o node.name \o <<" ">> \o node.params
    ELSE IF node.type = "decl" THEN node.prop \o <<":", " ">> \o node.value
    ELSE <<>>

\* Variant: only the first line exception is tried.
doesMatchLineExceptions_FirstOnly(node, exceptionRegExps) ==
    /\ exceptionRegExps.lineExceptions # <<>>
    /\ Matches(NodeToString(node), exceptionRegExps.lineExceptions[1])

doesMatchLineExceptions(node, exceptionRegExps) ==
    \E i \in DOMAIN exceptionRegExps.lineExceptions :
        Matches(NodeToString(node), exceptionRegExps.lineExceptions[i])

ImportName == <<"i", "m", "p", "o", "r", "t">>
FileNameStartsWithRuleName == "rule-creator/file-name-starts-with"
VisibilityRuleName == "rule-creator/visibility"
Visibility == <<"visibility">>

shouldStartWith(importFileName, start) ==
    <<Quote>> \o importFileName \o <<Quote, " import should start with ", Quote>> \o start \o <<Quote>>
shouldNotStartWith(importFileName, start) ==
    <<Quote>> \o importFileName \o <<Quote, " import should not start with ", Quote>> \o start \o <<Quote>>

\* Index of the first occurrence of search in text from i on, or 0.
RECURSIVE IndexOf(_, _, _)
IndexOf(text, search, i) ==
    IF i + Len(search) - 1 > Len(text) THEN 0
    ELSE IF SubSeq(text, i, i + Len(search) - 1) = search THEN i
    ELSE IndexOf(text, search, i + 1)

\* text.replace(search, replacement) with a string to search for: the first
\* occurrence is replaced.
ReplaceFirst(text, search, replacement) ==
    LET at == IndexOf(text, search, 1) IN
    IF at = 0 THEN text
    ELSE SubSeq(text, 1, at - 1) \o replacement \o SubSeq(text, at + Len(search), Len(text))

\* replaceAtRule(atRule, newFileName, oldFileName): the node that takes the
\* at-rule's place.
replaceAtRule(atRule, newFileName, oldFileName) ==
    [atRule EXCEPT !.params = ReplaceFirst(@, oldFileName, newFileName)]

\* fileName.replace(new RegExp(`^${startWith}`), ""), for a startWith without
\* characters that are special in a regular expression.
StripStart(fileName, startWith) ==
    IF startsWith(fileName, startWith)
    THEN SubSeq(fileName, Len(startWith) + 1, Len(fileName)) ELSE fileName

\* What fileNameStartsWithRule's walk callback decides on an @import node:
\* nothing to do, a violation to report, or (with context.fix) a rewrite.
fileNameStartsWithDecision(info, node) ==
    IF ~(node.type = "atrule" /\ node.name = ImportName) THEN Return([do |-> "nothing"])
    ELSE IF doesMatchLineExceptions(node, info.exceptionRegExps) THEN Return([do |-> "nothing"])
    ELSE LET importParam == extractImportFileParam(node) IN
      IF importParam.threw THEN importParam
      ELSE LET fileName == basename(SelectSeq(importParam.ret, NotQuote))
               given == Get(info.ruleOptions, "startWith")
               startWith == IF Truthy(given) THEN given.s ELSE <<"_">>
               mode == Get(info.ruleOptions, "mode")
           IN IF mode = Str(REQUIRE) /\ ~startsWith(fileName, startWith)
              THEN IF Truthy(info.context.fix)
                   THEN Return([do |-> "fix",
                                node |-> replaceAtRule(node, startWith \o fileName, fileName)])
                   ELSE Return([do |-> "report",
                                message |-> shouldStartWith(fileName, startWith)])
              ELSE IF mode = Str(BLOCK) /\ startsWith(fileName, startWith)
              THEN IF Truthy(info.context.fix)
                   THEN Return([do |-> "fix",
                                node |-> replaceAtRule(node, StripStart(fileName, startWith), fileName)])
                   ELSE Return([do |-> "report",
                                message |-> shouldNotStartWith(fileName, startWith)])
              ELSE Return([do |-> "nothing"])

\* fileNameStartsWithRule's ruleCallback, for the node at index idx of the
\* walk: the violations it reports there.
fileNameStartsWithVisit(ruleName, info, node, idx) ==
    LET decision == fileNameStartsWithDecision(info, node) IN
    IF decision.threw THEN decision
    ELSE IF decision.ret.do = "report"
    THEN Return(<<[message |-> callbackMessages(ruleName, decision.ret.message),
                   node |-> idx, word |-> NodeToString(node)]>>)
    ELSE Return(<<>>)

\* The node in the at-rule's place once the callback has returned.
fileNameStartsWithFixed(info, node) ==
    LET decision == fileNameStartsWithDecision(info, node) IN
    IF ~decision.threw /\ decision.ret.do = "fix" THEN decision.ret.node ELSE node

Removed == [type |-> "removed"]

\* visibilityRule's walkDecls callback for the node at index idx.
visibilityVisit(ruleName, info, node, idx) ==
    IF node.type = "decl" /\ node.prop = Visibility /\ ~Truthy(info.context.fix)
    THEN Return(<<[message |-> callbackMessages(ruleName, <<"Try not to use visibility.">>),
                   node |-> idx, word |-> node.value]>>)
    ELSE Return(<<>>)

\* decl.remove() under context.fix
visibilityFixed(info, node) ==
    IF node.type = "decl" /\ node.prop = Visibility /\ Truthy(info.context.fix)
    THEN Removed ELSE node

\* visibilityRule's optionsCallback: `${primary}`
visibilityOptionsCallback(primary, secondary) == Return(Str(TemplateString(primary)))

(***************************************************************************)
(* rule.ts (createRule) and createDefaultRule.                             *)
(***************************************************************************)
\* The rule's optionsCallback, if it has one.
optionsCallback(r, primary, secondary) ==
    IF r.kind = "default" THEN defaultOptionsCallback(primary)
    ELSE visibilityOptionsCallback(primary, secondary)

\* Variant: the secondary options are not handed on.
optionsCallbackArguments_PrimaryOnly(primaryOption, secondaryOptions) == <<primaryOption, Undefined>>

\* The arguments plugin hands to inputObject.optionsCallback.
optionsCallbackArguments(primaryOption, secondaryOptions) == <<primaryOption, secondaryOptions>>

\* plugin(primaryOption, secondaryOptions, context), up to the returned function:
\* inputObject.optionsCallback && inputObject.optionsCallback(...)
pluginOptionsCallbackResult(r, primaryOption, secondaryOptions) ==
    IF r.hasOptionsCallback
    THEN LET args == optionsCallbackArguments(primaryOption, secondaryOptions) IN
         optionsCallback(r, args[1], args[2])
    ELSE Return(Undefined)

\* context || {}
ContextOrEmpty(context) == IF Truthy(context) THEN context ELSE [t |-> "context", fix |-> Undefined]

\* Variant: the result is dropped once a stylesheet pass has completed.
closureOptionsCallbackResult_Discarded ==
    IF \E p \in DOMAIN passes : passes[p].phase = "done"
    THEN (IF rule.kind = "default" THEN NoExceptions ELSE Undefined)
    ELSE activation.optionsCallbackResult

\* Variant: the first result computed is kept for every later activation.
closureOptionsCallbackResult_KeptAcrossActivations ==
    IF optionsCallbackCalls = <<>> THEN activation.optionsCallbackResult
    ELSE LET first == optionsCallback(rule, optionsCallbackCalls[1][1], optionsCallbackCalls[1][2])
         IN IF first.threw THEN activation.optionsCallbackResult ELSE first.ret

\* The optionsCallbackResult the returned function closes over.
closureOptionsCallbackResult == activation.optionsCallbackResult

\* The RuleExecutionInfo the returned function builds for (root, result).
buildRuleExecutionInfo(act, callbackResult, root, result) ==
    [primaryOption |-> act.primaryOption,
     secondaryOptions |-> act.secondaryOptions,
     context |-> ContextOrEmpty(act.context),
     root |-> root,
     result |-> result,
     optionsCallbackResult |-> callbackResult]

ruleExecutionInfo(root, result) ==
    buildRuleExecutionInfo(activation, closureOptionsCallbackResult, root, result)

\* Variant: every warning goes to the result of the first pass.
reportCallback_FirstResult(w, violation, result, ruleName) ==
    [w EXCEPT ![1] = Append(@, [result |-> 1, ruleName |-> ruleName] @@ violation)]

\* Variant: the result is the one of the pass started last, as if the
\* execution function kept it outside the call.
reportCallback_LatestResult(w, violation, result, ruleName) ==
    LET started == {result.id} \cup {p \in DOMAIN passes : passes[p].phase # "idle"}
        latest == CHOOSE p \in started : \A q \in started : q <= p
    IN [w EXCEPT ![latest] = Append(@, [result |-> latest, ruleName |-> ruleName] @@ violation)]

\* utils.report({...violation, result, ruleName}): the warning is added to
\* the result it names.
reportCallback(w, violation, result, ruleName) ==
    [w EXCEPT ![result.id] = Append(@, [result |-> result.id, ruleName |-> ruleName] @@ violation)]

RECURSIVE reportEach(_, _, _, _)
reportEach(w, violations, result, ruleName) ==
    IF violations = <<>> THEN w
    ELSE reportEach(reportCallback(w, Head(violations), result, ruleName),
                    Tail(violations), result, ruleName)

\* Variant: the filter keeps the captured errors instead.
IsRegExp_Inverted(exception) == exception.kind # "RegExp"

\* exception instanceof RegExp
IsRegExp(exception) == exception.kind = "RegExp"

NotInvoked == [invoked |-> FALSE]

\* createDefaultRule's ruleCallback up to the call of the wrapped callback:
\* what it reports, whether it calls the wrapped callback and with what.
defaultRuleCallback(r, info) ==
    LET options == info.primaryOption
        decision == shouldRunDefaultRule(options, r.ruleName,
                        [from |-> info.result.from,
                         exceptionRegExps |-> info.optionsCallbackResult.parsedFileExceptions])
    IN IF ~Truthy(options)
       THEN [reported |-> <<>>, executionInfo |-> NotInvoked, log |-> <<>>]
       ELSE IF typeof(options) # "boolean" /\ ~decision.ret
       THEN [reported |-> decision.reported, executionInfo |-> NotInvoked, log |-> decision.log]
       ELSE [reported |-> <<>>,
             executionInfo |->
                [invoked |-> TRUE,
                 ruleOptions |-> IF typeof(options) = "boolean" THEN r.defaultOptions ELSE options,
                 root |-> info.root,
                 result |-> info.result,
                 context |-> info.context,
                 exceptionRegExps |->
                    [lineExceptions |->
                        SelectSeq(info.optionsCallbackResult.parsedLineExceptions, IsRegExp),
                     fileNameExceptions |->
                        SelectSeq(info.optionsCallbackResult.parsedFileExceptions, IsRegExp)]],
             log |-> (IF typeof(options) # "boolean" THEN decision.log ELSE <<>>)
                        \o <<"ruleCallback">>]

\* visibilityRule's ruleCallback up to the walk.
visibilityRuleCallback(r, info) ==
    IF ~Truthy(info.primaryOption)
    THEN [reported |-> <<>>, executionInfo |-> NotInvoked, log |-> <<>>]
    ELSE [reported |->
             IF r.hasOptionsCallback /\ ~Truthy(info.optionsCallbackResult)
             THEN <<[message |-> <<"Messed up options callback">>, node |-> 0]>>
             ELSE <<>>,
          executionInfo |-> [invoked |-> TRUE, root |-> info.root, result |-> info.result,
                             context |-> info.context],
          log |-> <<"walkDecls">>]

\* inputObject.ruleCallback(reportCallback, messageCallbacks, info), up to the walk.
ruleCallback(r, info) ==
    IF r.kind = "default" THEN defaultRuleCallback(r, info) ELSE visibilityRuleCallback(r, info)

\* The walk's callback on the node at index idx.
visit(r, executionInfo, node, idx) ==
    IF r.kind = "default" THEN fileNameStartsWithVisit(r.ruleName, executionInfo, node, idx)
    ELSE visibilityVisit(r.ruleName, executionInfo, node, idx)

\* The node in the visited node's place after the callback (context.fix).
fixed(r, executionInfo, node) ==
    IF r.kind = "default" THEN fileNameStartsWithFixed(executionInfo, node)
    ELSE visibilityFixed(executionInfo, node)

\* Variant: a failure of the wrapped callback is caught and dropped.
ruleCallbackCompletion_Caught(completion) ==
    IF completion.threw THEN Return(<<>>) ELSE completion

\* return defaultRuleInputs.ruleCallback(...) in createDefaultRule and
\* return inputObject.ruleCallback(...) in createRule: the completion of the
\* wrapped callback is the completion of the execution function.
ruleCallbackCompletion(completion) == completion

NoActivation ==
    [status |-> "none", primaryOption |-> Undefined, secondaryOptions |-> Undefined,
     context |-> Undefined, optionsCallbackResult |-> Undefined]

\* The violations the walk reports from node idx on, or the error it throws.
RECURSIVE walk(_, _, _, _)
walk(r, executionInfo, root, idx) ==
    IF idx > Len(root) THEN Return(<<>>)
    ELSE LET visited == visit(r, executionInfo, root[idx], idx) IN
         IF visited.threw THEN visited
         ELSE LET rest == walk(r, executionInfo, root, idx + 1) IN
              IF rest.threw THEN rest ELSE Return(visited.ret \o rest.ret)

\* plugin(primaryOption, secondaryOptions)(root, result) run to its end in one
\* go: the violations reported and what the wrapped callback was given.
PassOutcome(r, primaryOption, secondaryOptions, root, result) ==
    LET callbackResult == pluginOptionsCallbackResult(r, primaryOption, secondaryOptions) IN
    IF callbackResult.threw THEN [threw |-> TRUE]
    ELSE LET act == [NoActivation EXCEPT !.primaryOption = primaryOption,
                                         !.secondaryOptions = secondaryOptions]
             info == buildRuleExecutionInfo(act, callbackResult.ret, root, result)
             started == ruleCallback(r, info)
             walked == IF started.executionInfo.invoked
                       THEN walk(r, started.executionInfo, root, 1) ELSE Return(<<>>)
         IN IF walked.threw THEN [threw |-> TRUE]
            ELSE [threw |-> FALSE,
                  reported |-> started.reported \o walked.ret,
                  executionInfo |-> started.executionInfo]

(***************************************************************************)
(* Inputs: options as a stylelint configuration can hold them, the rules   *)
(* built from them, stylesheets and file paths.                            *)
(***************************************************************************)
Underscore == Str(<<"_">>)
GlobRootStar == Str(<<"/", "*">>)                      \* "/*"
GlobAnyDepth == Str(<<"/", "*", "*", "/", "*">>)       \* "/**/*"
GlobNoMatch == Str(<<"/", "*", "*", "/", "q">>)        \* "/**/q"
GlobUnclosed == Str(<<"[">>)                           \* "["
LineGlobDir == Str(<<"*", "d", "/", "*">>)             \* "*d/*"

RequireOptions == Obj(Str(REQUIRE), Underscore, Absent, Absent)
BlockOptions == Obj(Str(BLOCK), Underscore, Absent, Absent)
OffOptions == Obj(Str(OFF), Absent, Absent, Absent)
RequireWithExceptions ==
    Obj(Str(REQUIRE), Underscore, Arr(<<GlobNoMatch, GlobRootStar>>), Arr(<<LineGlobDir>>))

\* Object options that pass validation and name an active mode.
ActiveOptions ==
    {RequireOptions, BlockOptions, RequireWithExceptions,
     Obj(Str(BLOCK), Absent, Arr(<<GlobAnyDepth>>), Absent),
     Obj(Str(REQUIRE), Absent, Arr(<<GlobUnclosed>>), Absent),
     Obj(Str(REQUIRE), Absent, Null, Absent),
     Obj(Str(BLOCK), Underscore, Absent, Bool(FALSE))}

\* Object options with mode "off".
DisabledOptions ==
    {OffOptions,
     Obj(Str(OFF), Absent, Bool(TRUE), Absent),
     Obj(Str(OFF), Absent, Arr(<<GlobUnclosed>>), Absent)}

\* The catalogue of createDefaultRuleTests and further malformed shapes.
MalformedOptions ==
    {Obj(Absent, Absent, Absent, Absent),
     Obj(Str(<<"blah blah">>), Absent, Absent, Absent),
     Obj(Num(5), Absent, Absent, Absent),
     Obj(Str(BLOCK), Absent, Bool(TRUE), Absent),
     Obj(Str(REQUIRE), Absent, Arr(<<Bool(TRUE)>>), Absent),
     Obj(Str(REQUIRE), Absent, Arr(<<GlobRootStar>>), Bool(TRUE)),
     Obj(Str(REQUIRE), Underscore, Absent, Arr(<<Num(5)>>)),
     Str(<<"on">>)}

PrimaryOptions ==
    {Undefined, Null, Bool(FALSE), Bool(TRUE)}
        \cup ActiveOptions \cup DisabledOptions \cup MalformedOptions

\* defaultOptions objects a rule may declare (the type DefaultRuleOptions).
DeclaredDefaultOptions == {RequireOptions, OffOptions, RequireWithExceptions}

DefaultRules ==
    {[kind |-> "default", ruleName |-> FileNameStartsWithRuleName,
      hasOptionsCallback |-> TRUE, defaultOptions |-> d] : d \in DeclaredDefaultOptions}
VisibilityRules ==
    {[kind |-> "visibility", ruleName |-> VisibilityRuleName,
      hasOptionsCallback |-> h, defaultOptions |-> Undefined] : h \in BOOLEAN}
Rules == DefaultRules \cup VisibilityRules

\* The (primaryOption, secondaryOptions) a configuration gives each rule. The
\* declared defaultOptions are read for a boolean primary option only, so the
\* other primary options are tried with the repository's declared defaults.
ActivationInputs(r) ==
    IF r.kind = "visibility"
    THEN {Undefined, Bool(TRUE), Bool(FALSE), Str(<<"on">>)} \X {Undefined, Str(<<"s">>)}
    ELSE IF r.defaultOptions = RequireOptions THEN PrimaryOptions \X {Undefined}
    ELSE {Bool(TRUE), Bool(FALSE)} \X {Undefined}

Import(path) ==
    [type |-> "atrule", name |-> ImportName, params |-> <<Quote>> \o path \o <<Quote>>]
VisibilityDecl == [type |-> "decl", prop |-> Visibility, value |-> <<"hidden">>]

\* Stylesheets, as the sequence of nodes a walk visits.
Roots ==
    {<<>>,
     <<Import(<<"c">>)>>,
     <<Import(<<"d", "/", "_", "c">>), VisibilityDecl>>,
     <<Import(<<"_", "c">>), Import(<<"d", "/", "c">>)>>}

\* result.opts.from: absent, or the file's path.
Froms == {Undefined, Str(<<"/", "a">>), Str(<<"/", "d", "/", "a">>)}

PassIds == 1..MaxPasses

IdlePass == [phase |-> "idle"]
NoProbe == [fn |-> "none"]

(***************************************************************************)
(* The state machine: one rule, one activation, its stylesheet passes.     *)
(***************************************************************************)
Init ==
    /\ rule \in Rules
    /\ activation = NoActivation
    /\ optionsCallbackCalls = <<>>
    /\ passes = [p \in PassIds |-> IdlePass]
    /\ warnings = [p \in PassIds |-> <<>>]
    /\ probe = NoProbe

\* stylelint calls plugin(primaryOption, secondaryOptions, context).
Activate(primaryOption, secondaryOptions, context) ==
    /\ activation.status = "none"
    /\ LET r == pluginOptionsCallbackResult(rule, primaryOption, secondaryOptions) IN
       /\ activation' =
            IF r.threw
            THEN [NoActivation EXCEPT !.status = "threw", !.primaryOption = primaryOption,
                                      !.secondaryOptions = secondaryOptions]
            ELSE [status |-> "active", primaryOption |-> primaryOption,
                  secondaryOptions |-> secondaryOptions, context |-> context,
                  optionsCallbackResult |-> r.ret]
       /\ optionsCallbackCalls' =
            IF rule.hasOptionsCallback
            THEN Append(optionsCallbackCalls,
                        optionsCallbackArguments(primaryOption, secondaryOptions))
            ELSE optionsCallbackCalls
    /\ UNCHANGED <<rule, passes, warnings, probe>>

\* stylelint calls the returned function with (root, result): the rule
\* callback runs up to the walk of the wrapped callback.
RunPass(p, root, from) ==
    /\ activation.status = "active"
    /\ passes[p].phase = "idle"
    /\ \A q \in PassIds : q < p => passes[q].phase # "idle"
    /\ LET result == [id |-> p, from |-> from]
           info == ruleExecutionInfo(root, result)
           started == ruleCallback(rule, info)
       IN /\ warnings' = reportEach(warnings, started.reported, result, rule.ruleName)
          /\ passes' = [passes EXCEPT ![p] =
                [phase |-> IF started.executionInfo.invoked /\ root # <<>>
                           THEN "walking" ELSE "done",
                 root |-> root, source |-> root, result |-> result, cursor |-> 1,
                 ruleExecutionInfo |-> info,
                 executionInfo |-> started.executionInfo,
                 log |-> started.log]]
    /\ UNCHANGED <<rule, activation, optionsCallbackCalls, probe>>

\* The wrapped callback, which may be awaitable, visits the next node.
Visit(p) ==
    /\ passes[p].phase = "walking"
    /\ LET pass == passes[p]
           visited == ruleCallbackCompletion(
                        visit(rule, pass.executionInfo, pass.root[pass.cursor], pass.cursor))
       IN IF visited.threw
          THEN /\ passes' = [passes EXCEPT ![p] =
                    [error |-> visited.error] @@ [pass EXCEPT !.phase = "threw"]]
               /\ UNCHANGED warnings
          ELSE /\ warnings' = reportEach(warnings, visited.ret, pass.result, rule.ruleName)
               /\ passes' = [passes EXCEPT
                    ![p].root[pass.cursor] =
                        fixed(rule, pass.executionInfo, pass.root[pass.cursor]),
                    ![p].cursor = pass.cursor + 1,
                    ![p].phase = IF pass.cursor + 1 > Len(pass.root) THEN "done" ELSE "walking"]
    /\ UNCHANGED <<rule, activation, optionsCallbackCalls, probe>>

Next ==
    \/ \E in \in ActivationInputs(rule) : Activate(in[1], in[2], Undefined)
    \/ \E p \in PassIds, root \in Roots, from \in Froms : RunPass(p, root, from)
    \/ \E p \in PassIds : Visit(p)

Spec == Init /\ [][Next]_vars

(***************************************************************************)
(* The validators called on their own, on any value.                       *)
(***************************************************************************)
ModeValues == {Absent, Str(OFF), Str(REQUIRE), Str(BLOCK), Str(<<"blah blah">>), Num(5)}
ExceptionValues ==
    {Absent, Null, Bool(FALSE), Bool(TRUE), Num(0), Str(<<>>), Arr(<<>>),
     Arr(<<GlobRootStar>>), Arr(<<GlobRootStar, Bool(TRUE)>>),
     Obj(Absent, Absent, Absent, Absent)}
ProbeValues ==
    {Undefined, Null, Bool(TRUE), Bool(FALSE), Num(0), Num(5), Str(<<>>), Str(OFF),
     Str(REQUIRE), Str(BLOCK), Str(<<"blah blah">>),
     Arr(<<>>), Arr(<<Str(OFF)>>), Arr(<<Underscore, Num(5)>>), Arr(<<Undefined>>)}
        \cup {Obj(m, Absent, f, l) : m \in ModeValues, f \in ExceptionValues, l \in {Absent, Arr(<<Num(5)>>)}}

InitValidators ==
    /\ rule = [kind |-> "default", ruleName |-> FileNameStartsWithRuleName,
               hasOptionsCallback |-> TRUE, defaultOptions |-> RequireOptions]
    /\ activation = NoActivation
    /\ optionsCallbackCalls = <<>>
    /\ passes = [p \in PassIds |-> IdlePass]
    /\ warnings = [p \in PassIds |-> <<>>]
    /\ probe = NoProbe

CallIsValidDefaultOptionsObject(input) ==
    /\ probe' = [fn |-> "isValidDefaultOptionsObject", input |-> input,
                 outcome |-> isValidDefaultOptionsObject(input)]
    /\ UNCHANGED <<rule, activation, optionsCallbackCalls, passes, warnings>>

CallIsValidDefaultOptionsExceptions(input) ==
    /\ probe' = [fn |-> "isValidDefaultOptionsExceptions", input |-> input,
                 outcome |-> Return(isValidDefaultOptionsExceptions(input))]
    /\ UNCHANGED <<rule, activation, optionsCallbackCalls, passes, warnings>>

CallIsDefaultOptionMode(input) ==
    /\ probe' = [fn |-> "isDefaultOptionMode", input |-> input,
                 outcome |-> Return(isDefaultOptionMode(input))]
    /\ UNCHANGED <<rule, activation, optionsCallbackCalls, passes, warnings>>

NextValidators ==
    \/ \E input \in ProbeValues : CallIsValidDefaultOptionsObject(input)
    \/ \E input \in (ProbeValues \cup ExceptionValues) \ {Absent} : CallIsValidDefaultOptionsExceptions(input)
    \/ \E input \in (ProbeValues \cup ModeValues) \ {Absent} : CallIsDefaultOptionMode(input)

SpecValidators == InitValidators /\ [][NextValidators]_vars

(***************************************************************************)
(* The file-name-starts-with rule on its own: one activation with a        *)
(* context, one pass over a stylesheet of @import rules in a named file.   *)
(***************************************************************************)
\* "@import (reference) <path>", as the Less sources of the tests write it.
ImportReference(path) ==
    [type |-> "atrule", name |-> ImportName,
     params |-> <<"(", "r", "e", "f", ")", " ", Quote>> \o path \o <<Quote>>]

\* Import paths: bare names, names behind directories, a directory named as
\* the file, a directory with a space in its name.
PathC == <<"c">>
PathUnderscoreC == <<"_", "c">>
PathOther == <<"o">>
PathDirC == <<"d", "/", "c">>
PathDirUnderscoreC == <<"d", "/", "_", "c">>
PathUnderscoreDirC == <<"_", "d", "/", "c">>
PathUpC == <<".", ".", "/", "c">>
PathSameDirC == <<"c", "/", "c">>
PathSpaceDirUnderscoreC == <<"a", " ", "b", "/", "_", "c">>
ImportPaths ==
    {PathC, PathUnderscoreC, PathOther, PathDirC, PathDirUnderscoreC, PathUnderscoreDirC,
     PathUpC, PathSameDirC, PathSpaceDirUnderscoreC}

\* "@import url(c)": an import without a quoted parameter.
ImportUrl ==
    [type |-> "atrule", name |-> ImportName, params |-> <<"u", "r", "l", "(", "c", ")">>]

ImportRoots ==
    {<<Import(path)>> : path \in ImportPaths}
        \cup {<<ImportUrl>>, <<Import(PathC), ImportUrl>>, <<ImportUrl, Import(PathC)>>}
        \cup {<<ImportReference(path), VisibilityDecl>> : path \in {PathC, PathUnderscoreC, PathUpC}}
        \cup {<<Import(PathC), Import(PathOther)>>,
              <<Import(PathUnderscoreC), Import(PathDirC)>>,
              <<Import(PathOther), Import(PathUnderscoreC)>>}

GlobPathCss == Str(<<"/", "*", "*", "/", "p", "a", "t", "h", "/", "*", "*", "/", "*", ".", "c", "s", "s">>)     \* "/**/path/**/*.css"
GlobPathLess == Str(<<"/", "*", "*", "/", "p", "a", "t", "h", "/", "*", "*", "/", "*", ".", "l", "e", "s", "s">>)   \* "/**/path/**/*.less"
LineGlobOther == Str(<<"*", Quote, "o", Quote>>)      \* *"o"

RequireWithFileExceptions ==
    Obj(Str(REQUIRE), Underscore, Arr(<<GlobPathCss>>), Absent)
RequireWithBothFileExceptions ==
    Obj(Str(REQUIRE), Underscore, Arr(<<GlobPathLess, GlobPathCss>>), Absent)
RequireWithLineExceptions ==
    Obj(Str(REQUIRE), Underscore, Absent, Arr(<<LineGlobDir, LineGlobOther>>))
BlockWithLineExceptions ==
    Obj(Str(BLOCK), Underscore, Absent, Arr(<<LineGlobOther, LineGlobDir>>))

\* Exception lists with an entry that does not compile beside entries that do.
RequireWithUnclosedFileGlob ==
    Obj(Str(REQUIRE), Underscore, Arr(<<GlobUnclosed, GlobPathCss>>), Arr(<<LineGlobOther>>))
RequireWithUnclosedLineGlob ==
    Obj(Str(REQUIRE), Underscore, Arr(<<GlobPathCss>>), Arr(<<LineGlobOther, GlobUnclosed>>))
RequireWithNonStringEntries ==
    Obj(Str(REQUIRE), Underscore, Arr(<<Num(5), GlobPathCss>>), Arr(<<LineGlobOther, Bool(TRUE)>>))

\* "C:*": a file exception that a path in its win32 form can match.
GlobDriveC == Str(<<"C", ":", "*">>)
RequireWithDriveFileException ==
    Obj(Str(REQUIRE), Underscore, Arr(<<GlobNoMatch, GlobDriveC>>), Absent)

ImportRuleOptions ==
    {Bool(TRUE), RequireOptions, BlockOptions,
     Obj(Str(REQUIRE), Absent, Absent, Absent),
     Obj(Str(BLOCK), Str(<<"c">>), Absent, Absent),
     RequireWithFileExceptions, RequireWithBothFileExceptions,
     RequireWithLineExceptions, BlockWithLineExceptions,
     RequireWithUnclosedFileGlob, RequireWithUnclosedLineGlob, RequireWithNonStringEntries,
     RequireWithDriveFileException}

\* context: absent, or the one stylelint passes when fixing.
FixContext == [t |-> "context", fix |-> Bool(TRUE)]
Contexts == {Undefined, FixContext}

\* codeFilename values of the test groups and the directories stylelint may
\* run in; stylelint resolves a relative codeFilename against the working
\* directory before it becomes result.opts.from.
CodeFilenames == {<<"p", "a", "t", "h", "/", "t", "o", "/", "x", ".", "c", "s", "s">>, <<"p", "a", "t", "h", "/", "t", "o", "-", "d", "i", "r", "e", "c", "t", "o", "r", "y", "/", "a", "n", "d", "/", "f", "i", "l", "e", "n", "a", "m", "e", ".", "c", "s", "s">>, <<"x", ".", "c", "s", "s">>}
WorkingDirectories == {<<"/">>, <<"/", "r">>, <<"C", ":", "\\", "r">>}

IsWin32(cwd) == cwd[1] # "/"
ToBackslashes(path) == [i \in DOMAIN path |-> IF path[i] = "/" THEN "\\" ELSE path[i]]

\* path.join(process.cwd(), codeFilename)
ResolveCodeFilename(cwd, codeFilename) ==
    IF IsWin32(cwd) THEN cwd \o <<"\\">> \o ToBackslashes(codeFilename)
    ELSE IF cwd = <<"/">> THEN cwd \o codeFilename
    ELSE cwd \o <<"/">> \o codeFilename

ImportFroms ==
    {Undefined} \cup
        {Str(ResolveCodeFilename(cwd, f)) : cwd \in WorkingDirectories, f \in CodeFilenames}

FileNameStartsWithRule ==
    [kind |-> "default", ruleName |-> FileNameStartsWithRuleName,
     hasOptionsCallback |-> TRUE, defaultOptions |-> RequireOptions]

InitImports ==
    /\ rule = FileNameStartsWithRule
    /\ activation = NoActivation
    /\ optionsCallbackCalls = <<>>
    /\ passes = [p \in PassIds |-> IdlePass]
    /\ warnings = [p \in PassIds |-> <<>>]
    /\ probe = NoProbe

NextImports ==
    \/ \E options \in ImportRuleOptions, context \in Contexts :
            Activate(options, Undefined, context)
    \/ \E root \in ImportRoots, from \in ImportFroms : RunPass(1, root, from)
    \/ Visit(1)

SpecImports == InitImports /\ [][NextImports]_vars

(***************************************************************************)
(* default-rule-test.ts: testDefaultRule and the test groups it builds.    *)
(* A test group and a test case are records that hold the properties the   *)
(* author wrote and no others; a stylesheet is the sequence of its nodes.  *)
(***************************************************************************)
\* An object without properties, and the properties of an optional object.
EmptyObject == [f \in {} |-> <<>>]
Has(object, property) == property \in DOMAIN object
\* {...a, ...b}
Spread(a, b) == b @@ a
\* test.linterOptions as an object spread sees it
linterOptionsOf(test) == IF Has(test, "linterOptions") THEN test.linterOptions ELSE EmptyObject
\* test.linterOptions?.config as an object spread sees it
configOf(test) ==
    IF Has(linterOptionsOf(test), "config") THEN linterOptionsOf(test).config ELSE EmptyObject
\* A description that is present and not the empty string.
HasDescription(test) == Has(test, "description") /\ test.description # <<>>

\* The text of a test case's code.
RECURSIVE CodeText(_)
CodeText(code) ==
    IF code = <<>> THEN <<>> ELSE NodeToString(Head(code)) \o <<";">> \o CodeText(Tail(code))

createInvalidOptionsTest(r, ruleOptions, tests) ==
    [ruleOptions |-> ruleOptions,
     description |-> <<"everything should be rejected when invalid options are given">>,
     accept |-> <<>>,
     reject |->
        [i \in DOMAIN tests |->
            LET invalidTest ==
                    Spread(tests[i],
                           [message |-> ruleObjectMessages(r.ruleName, invalidOptions(ruleOptions))])
            IN IF HasDescription(invalidTest)
               THEN [invalidTest EXCEPT !.description =
                        <<"everything in ", Quote>> \o @
                            \o <<Quote, " should be rejected when invalid options are given">>]
               ELSE invalidTest]]

createValidOptionsTest(ruleOptions) ==
    [ruleOptions |-> ruleOptions,
     description |-> <<"valid rule options inputs should be accepted">>,
     reject |-> <<>>,
     accept |-> <<[code |-> <<>>]>>]

\* The malformed option shapes createDefaultRuleTests tries.
invalidOptionsCatalogue ==
    <<Obj(Absent, Absent, Absent, Absent),
      Obj(Str(<<"blah blah">>), Absent, Absent, Absent),
      Obj(Num(5), Absent, Absent, Absent),
      Obj(Str(BLOCK), Absent, Bool(TRUE), Absent),
      Obj(Str(BLOCK), Absent, Arr(<<Bool(TRUE)>>), Absent),
      Obj(Str(REQUIRE), Absent, Arr(<<Bool(TRUE)>>), Absent),
      Obj(Str(REQUIRE), Absent, Arr(<<Obj(Absent, Absent, Absent, Absent)>>), Absent)>>

\* Variant: only the first group's accept cases are collected.
allAcceptCases_FirstGroupOnly(testInputs) ==
    IF testInputs = <<>> THEN <<>> ELSE testInputs[1].accept

\* testInputs.reduce((accum, testInput) => accum.concat(testInput.accept), [])
RECURSIVE allAcceptCases(_)
allAcceptCases(testInputs) ==
    IF testInputs = <<>> THEN <<>>
    ELSE Head(testInputs).accept \o allAcceptCases(Tail(testInputs))

createDefaultRuleTests(r, testInputs) ==
    [k \in DOMAIN invalidOptionsCatalogue |->
        createInvalidOptionsTest(r, invalidOptionsCatalogue[k], allAcceptCases(testInputs))]
        \o <<createValidOptionsTest(Bool(TRUE)), createValidOptionsTest(Bool(FALSE))>>

getExceptionTestDescription(originalDescription, suffix) ==
    <<"Rejection test">>
        \o (IF originalDescription # <<>>
            THEN <<" ", Quote>> \o originalDescription \o <<Quote>> ELSE <<>>)
        \o <<" should pass when ", suffix>>

GlobSingleStarLess == Str(<<"/", "*", ".", "l", "e", "s", "s">>)      \* "/*.less"
GlobDoubleStarLess == Str(<<"/", "*", "*", "/", "*", ".", "l", "e", "s", "s">>)      \* "/**/*.less"
GlobQqqLess == Str(<<"/", "*", "*", "/", "q", "q", "q", ".", "l", "e", "s", "s">>)                \* "/**/qqq.less"
GlobStarBLess == Str(<<"/", "*", "b", ".", "l", "e", "s", "s">>)                \* "/*b.less"

ExemptTestVariations ==
    <<[ruleOptions |-> Obj(Str(OFF), Absent, Absent, Absent),
       descriptionSuffix |-> "mode is off"],
      [ruleOptions |-> Bool(FALSE),
       descriptionSuffix |-> "rule is disabled"],
      [fileName |-> <<"/", "s", "i", "n", "g", "l", "e", "-", "s", "t", "a", "r", "t", "-", "m", "a", "t", "c", "h", ".", "l", "e", "s", "s">>,
       ruleOptions |-> Obj(Absent, Absent, Arr(<<GlobSingleStarLess>>), Absent),
       descriptionSuffix |-> "inside file matched by single star glob"],
      [fileName |-> <<"/", "d", "o", "u", "b", "l", "e", "/", "s", "t", "a", "r", "/", "m", "a", "t", "c", "h", ".", "l", "e", "s", "s">>,
       ruleOptions |-> Obj(Absent, Absent, Arr(<<GlobDoubleStarLess>>), Absent),
       descriptionSuffix |-> "inside file matched by double star glob"],
      [fileName |-> <<"/", "a", "b", ".", "l", "e", "s", "s">>,
       ruleOptions |-> Obj(Absent, Absent, Arr(<<GlobQqqLess, GlobStarBLess>>), Absent),
       descriptionSuffix |-> "inside exception file with multiple files"]>>

\* Variant: a property the author's options hold is kept.
SpreadOptions_InputWins(inputOptions, variationOptions) ==
    [t |-> "object",
     o |-> [k \in DOMAIN inputOptions.o |->
                IF inputOptions.o[k] # Absent THEN inputOptions.o[k]
                ELSE variationOptions.o[k]]]

\* {...inputOptions, ...variation.ruleOptions} for two options objects
SpreadOptions(inputOptions, variationOptions) ==
    [t |-> "object",
     o |-> [k \in DOMAIN inputOptions.o |->
                IF variationOptions.o[k] # Absent THEN variationOptions.o[k]
                ELSE inputOptions.o[k]]]

\* The group createIgnoredTestVariations builds for one variation.
ignoredTestVariation(testInput, r, variation) ==
    LET inputOptions ==
            IF typeof(testInput.ruleOptions) = "object" THEN testInput.ruleOptions
            ELSE IF Truthy(testInput.ruleOptions) THEN r.defaultOptions
            ELSE Obj(Str(OFF), Absent, Absent, Absent)
        combinedRuleOptions ==
            IF Get(inputOptions, "mode") = Str(OFF) THEN inputOptions
            ELSE IF typeof(variation.ruleOptions) = "object"
            THEN SpreadOptions(inputOptions, variation.ruleOptions)
            ELSE variation.ruleOptions
        withFileName ==
            IF Has(variation, "fileName") /\ variation.fileName # <<>>
            THEN [codeFilename |-> variation.fileName] ELSE EmptyObject
        withDescription ==
            IF HasDescription(testInput)
            THEN [description |->
                    getExceptionTestDescription(testInput.description,
                                                variation.descriptionSuffix)]
            ELSE EmptyObject
        accept ==
            [i \in DOMAIN testInput.reject |->
                Spread(testInput.reject[i],
                       [description |->
                            getExceptionTestDescription(
                                IF HasDescription(testInput.reject[i])
                                THEN testInput.reject[i].description
                                ELSE CodeText(testInput.reject[i].code),
                                variation.descriptionSuffix)])]
    IN Spread(Spread(testInput,
                     [accept |-> accept,
                      reject |-> <<>>,
                      ruleOptions |-> combinedRuleOptions,
                      linterOptions |-> Spread(linterOptionsOf(testInput), withFileName)]),
              withDescription)

\* Variant: a group without reject cases gets its variations too.
createIgnoredTestVariations_Always(testInput, r) ==
    [v \in DOMAIN ExemptTestVariations |->
        ignoredTestVariation(testInput, r, ExemptTestVariations[v])]

createIgnoredTestVariations(testInput, r) ==
    IF Len(testInput.reject) = 0 THEN <<>>
    ELSE [v \in DOMAIN ExemptTestVariations |->
            ignoredTestVariation(testInput, r, ExemptTestVariations[v])]

RECURSIVE createIgnoredRejectionTests(_, _)
createIgnoredRejectionTests(tests, r) ==
    IF tests = <<>> THEN <<>>
    ELSE LET allowedRejectionsTestInput ==
                Spread(Head(tests),
                       [linterOptions |-> linterOptionsOf(Head(tests)), accept |-> <<>>])
         IN createIgnoredTestVariations(allowedRejectionsTestInput, r)
                \o createIgnoredRejectionTests(Tail(tests), r)

\* Variant: pluginPaths come before pluginPath.
pluginPathsOf_PathsFirst(inputs) ==
    (IF Has(inputs, "pluginPaths") THEN inputs.pluginPaths ELSE <<>>)
        \o (IF Has(inputs, "pluginPath") /\ inputs.pluginPath # "" THEN <<inputs.pluginPath>> ELSE <<>>)

\* testDefaultRule's paths
pluginPathsOf(inputs) ==
    (IF Has(inputs, "pluginPath") /\ inputs.pluginPath # "" THEN <<inputs.pluginPath>> ELSE <<>>)
        \o (IF Has(inputs, "pluginPaths") THEN inputs.pluginPaths ELSE <<>>)

\* Variant: the author's groups come first.
defaultRuleTests_AuthorsFirst(inputs) ==
    inputs.tests
        \o createDefaultRuleTests(inputs.rule, inputs.tests)
        \o createIgnoredRejectionTests(inputs.tests, inputs.rule)

\* Variant: the synthesis empties the accept list of the author's groups
\* themselves, not of copies.
defaultRuleTests_AcceptEmptied(inputs) ==
    createDefaultRuleTests(inputs.rule, inputs.tests)
        \o createIgnoredRejectionTests(inputs.tests, inputs.rule)
        \o [i \in DOMAIN inputs.tests |-> Spread(inputs.tests[i], [accept |-> <<>>])]

\* testDefaultRule's tests: synthesized groups, then the author's.
defaultRuleTests(inputs) ==
    createDefaultRuleTests(inputs.rule, inputs.tests)
        \o createIgnoredRejectionTests(inputs.tests, inputs.rule)
        \o inputs.tests

\* The argument of each testRule call, in call order.
testDefaultRule(inputs) ==
    LET tests == defaultRuleTests(inputs) IN
    [i \in DOMAIN tests |->
        Spread(tests[i],
               [ruleName |-> inputs.rule.ruleName,
                linterOptions |->
                    Spread(linterOptionsOf(tests[i]),
                           [config |-> Spread([plugins |-> pluginPathsOf(inputs)],
                                              configOf(tests[i]))])])]

(***************************************************************************)
(* testDefaultRule called on an author's test groups; the test runner      *)
(* (stylelint-jest-rule-tester's testRule) then lints the cases of the     *)
(* groups it was handed with the rule under test.                          *)
(***************************************************************************)
ExpectedShouldStartWith(name) ==
    ruleObjectMessages(FileNameStartsWithRuleName, shouldStartWith(name, <<"_">>))
ExpectedShouldNotStartWith(name) ==
    ruleObjectMessages(FileNameStartsWithRuleName, shouldNotStartWith(name, <<"_">>))

GroupRequire ==
    [ruleOptions |-> RequireOptions,
     accept |-> <<[code |-> <<ImportReference(PathUnderscoreC), VisibilityDecl>>,
                   description |-> <<"accepts import with startWith">>]>>,
     reject |-> <<[code |-> <<ImportReference(PathC), VisibilityDecl>>,
                   description |-> <<"blocks import without startWith">>,
                   message |-> ExpectedShouldStartWith(<<"c">>)],
                  [code |-> <<Import(PathDirC)>>,
                   message |-> ExpectedShouldStartWith(<<"c">>)]>>]
GroupDefaultsWithFix ==
    [ruleOptions |-> Bool(TRUE),
     description |-> <<"should work with default rule options">>,
     fix |-> TRUE,
     accept |-> <<[code |-> <<Import(PathUnderscoreC)>>]>>,
     reject |-> <<[code |-> <<Import(PathUpC)>>,
                   description |-> <<"blocks import with directories">>,
                   message |-> ExpectedShouldStartWith(<<"c">>),
                   fixed |-> <<Import(<<".", ".", "/", "_", "c">>)>>]>>]
GroupBlock ==
    [ruleOptions |-> BlockOptions,
     linterOptions |-> [codeFilename |-> <<"x", ".", "c", "s", "s">>,
                        config |-> [plugins |-> <<"own">>, quiet |-> TRUE]],
     accept |-> <<[code |-> <<Import(PathC)>>],
                  [code |-> <<Import(PathDirC)>>, description |-> <<"with directories">>]>>,
     reject |-> <<[code |-> <<Import(PathUnderscoreC)>>,
                   message |-> ExpectedShouldNotStartWith(<<"_", "c">>)]>>]
GroupFileExceptions ==
    [ruleOptions |-> RequireWithBothFileExceptions,
     linterOptions |-> [codeFilename |-> <<"p", "a", "t", "h", "/", "t", "o", "-", "d", "i", "r", "e", "c", "t", "o", "r", "y", "/", "a", "n", "d", "/", "f", "i", "l", "e", "n", "a", "m", "e", ".", "c", "s", "s">>],
     description |-> <<"should ignore whole files that match file exceptions">>,
     accept |-> <<[code |-> <<Import(PathC), Import(PathOther)>>]>>,
     reject |-> <<>>]
GroupExceptionsReject ==
    [ruleOptions |-> Obj(Str(REQUIRE), Underscore, Arr(<<GlobPathCss>>), Arr(<<LineGlobOther>>)),
     linterOptions |-> [codeFilename |-> <<"x", ".", "c", "s", "s">>, config |-> [quiet |-> TRUE]],
     accept |-> <<>>,
     reject |-> <<[code |-> <<Import(PathC), Import(PathOther)>>,
                   message |-> ExpectedShouldStartWith(<<"c">>)]>>]
AuthorGroups ==
    {GroupRequire, GroupDefaultsWithFix, GroupBlock, GroupFileExceptions, GroupExceptionsReject}

\* The tests property: one or two of the groups, in either order.
AuthorTests ==
    {<<g>> : g \in AuthorGroups}
        \cup {<<pair[1], pair[2]>> :
                pair \in {x \in AuthorGroups \X AuthorGroups : x[1] # x[2]}}

\* pluginPath, pluginPaths or both.
PluginInputs ==
    {[pluginPath |-> "p"], [pluginPaths |-> <<"q", "r">>],
     [pluginPath |-> "p", pluginPaths |-> <<"q">>]}

\* The context stylelint hands the plugin for a group.
contextOf(group) == IF Has(group, "fix") /\ group.fix THEN FixContext ELSE Undefined

\* result.opts.from for a group: its codeFilename, resolved against the
\* working directory unless it is absolute.
fromOf(cwd, group) ==
    IF ~Has(linterOptionsOf(group), "codeFilename") THEN Undefined
    ELSE LET codeFilename == linterOptionsOf(group).codeFilename IN
         IF codeFilename[1] = "/" THEN Str(codeFilename)
         ELSE Str(ResolveCodeFilename(cwd, codeFilename))

\* The groups testRule has been called with.
Submitted == IF probe.fn = "testDefaultRule" THEN probe.outcome.ret ELSE <<>>

InitTests ==
    /\ rule \in DefaultRules
    /\ activation = NoActivation
    /\ optionsCallbackCalls = <<>>
    /\ passes = [p \in PassIds |-> IdlePass]
    /\ warnings = [p \in PassIds |-> <<>>]
    /\ probe = NoProbe

CallTestDefaultRule(inputs) ==
    /\ probe = NoProbe
    /\ inputs.rule = rule
    /\ probe' = [fn |-> "testDefaultRule", input |-> inputs,
                 outcome |-> Return(testDefaultRule(inputs))]
    /\ UNCHANGED <<rule, activation, optionsCallbackCalls, passes, warnings>>

\* testRule configures the rule with the options of group g.
TestRuleActivate(g) ==
    /\ g \in DOMAIN Submitted
    /\ Activate(Submitted[g].ruleOptions, Undefined, contextOf(Submitted[g]))

\* testRule lints a case of group g in a run started in directory cwd.
TestRuleLint(g, case, cwd) ==
    /\ g \in DOMAIN Submitted
    /\ Submitted[g].ruleOptions = activation.primaryOption
    /\ contextOf(Submitted[g]) = activation.context
    /\ RunPass(1, case.code, fromOf(cwd, Submitted[g]))

NextTests ==
    \/ \E tests \in AuthorTests, plugins \in PluginInputs :
            CallTestDefaultRule(Spread(plugins, [rule |-> rule, tests |-> tests]))
    \/ \E g \in DOMAIN Submitted : TestRuleActivate(g)
    \/ \E g \in DOMAIN Submitted, cwd \in WorkingDirectories :
            \E i \in DOMAIN Submitted[g].accept : TestRuleLint(g, Submitted[g].accept[i], cwd)
    \/ \E g \in DOMAIN Submitted, cwd \in WorkingDirectories :
            \E i \in DOMAIN Submitted[g].reject : TestRuleLint(g, Submitted[g].reject[i], cwd)
    \/ Visit(1)

SpecTests == InitTests /\ [][NextTests]_vars

(***************************************************************************)
(* The host activating a rule more than once: stylelint calls the plugin   *)
(* anew for each file it lints, so a pass that an awaitable callback keeps *)
(* open may still be under way when the next activation is made.           *)
(***************************************************************************)
ReactivatedOptions == {Bool(TRUE), RequireWithExceptions, BlockWithLineExceptions}

ReactivatedFroms == {Undefined, Str(<<"/", "a">>)}

ReactivatedRoots ==
    {<<Import(PathC)>>, <<Import(PathUnderscoreC), Import(PathDirC)>>}

InitActivations ==
    /\ rule = FileNameStartsWithRule
    /\ activation = NoActivation
    /\ optionsCallbackCalls = <<>>
    /\ passes = [p \in PassIds |-> IdlePass]
    /\ warnings = [p \in PassIds |-> <<>>]
    /\ probe = NoProbe

\* plugin(primaryOption, secondaryOptions, context), called whether or not
\* the plugin was called before: the function it returns takes the place of
\* the one the host held. The host calls the plugin for a file it is about
\* to lint, so not more often than it has files.
ActivateAgain(primaryOption, secondaryOptions, context) ==
    /\ \E p \in PassIds : passes[p].phase = "idle"
    /\ Len(optionsCallbackCalls) <= Cardinality({p \in PassIds : passes[p].phase # "idle"})
    /\ LET r == pluginOptionsCallbackResult(rule, primaryOption, secondaryOptions) IN
       /\ activation' =
            IF r.threw
            THEN [NoActivation EXCEPT !.status = "threw", !.primaryOption = primaryOption,
                                      !.secondaryOptions = secondaryOptions]
            ELSE [status |-> "active", primaryOption |-> primaryOption,
                  secondaryOptions |-> secondaryOptions, context |-> context,
                  optionsCallbackResult |-> r.ret]
       /\ optionsCallbackCalls' =
            IF rule.hasOptionsCallback
            THEN Append(optionsCallbackCalls,
                        optionsCallbackArguments(primaryOption, secondaryOptions))
            ELSE optionsCallbackCalls
    /\ UNCHANGED <<rule, passes, warnings, probe>>

NextActivations ==
    \/ \E options \in ReactivatedOptions : ActivateAgain(options, Undefined, Undefined)
    \/ \E p \in PassIds, root \in ReactivatedRoots, from \in ReactivatedFroms :
            RunPass(p, root, from)
    \/ \E p \in PassIds : Visit(p)

SpecActivations == InitActivations /\ [][NextActivations]_vars

(***************************************************************************)
(* doesMatchLineExceptions called on its own, as a rule callback calls it  *)
(* on the nodes it walks.                                                  *)
(***************************************************************************)
LineGlobAll == Str(<<"*">>)                                     \* "*"
LineGlobImports == Str(<<"@", "i", "m", "p", "o", "r", "t", "*">>)   \* "@import*"
LineGlobHidden == Str(<<"*", "hidden">>)                       \* "*hidden"
LineGlobs == {LineGlobDir, LineGlobOther, LineGlobAll, LineGlobImports, LineGlobHidden}

\* exceptionRegExps objects: up to two compiled line exceptions.
ProbedExceptionRegExps ==
    {[lineExceptions |-> [i \in DOMAIN globs |-> globToRegExp(globs[i], FALSE).ret],
      fileNameExceptions |-> <<>>] :
        globs \in {<<>>} \cup {<<g>> : g \in LineGlobs} \cup {<<g, h>> : g, h \in LineGlobs}}

ProbedNodes ==
    {Import(PathC), Import(PathOther), Import(PathDirC), Import(PathSpaceDirUnderscoreC),
     ImportReference(PathOther), VisibilityDecl}

CallDoesMatchLineExceptions(node, exceptionRegExps) ==
    /\ probe' = [fn |-> "doesMatchLineExceptions",
                 input |-> [node |-> node, exceptionRegExps |-> exceptionRegExps],
                 outcome |-> Return(doesMatchLineExceptions(node, exceptionRegExps))]
    /\ UNCHANGED <<rule, activation, optionsCallbackCalls, passes, warnings>>

NextLineExceptions ==
    \E node \in ProbedNodes, exceptionRegExps \in ProbedExceptionRegExps :
        CallDoesMatchLineExceptions(node, exceptionRegExps)

SpecLineExceptions == InitValidators /\ [][NextLineExceptions]_vars

(***************************************************************************)
(* Properties.                                                             *)
(***************************************************************************)
IsDefaultRule == rule.kind = "default"
Started(p) == passes[p].phase # "idle"
Done(p) == passes[p].phase = "done"
PrimaryOption == activation.primaryOption

\* The violations of a pass, without the result they are attached to.
Violations(p) ==
    [i \in DOMAIN warnings[p] |->
        [f \in DOMAIN warnings[p][i] \ {"result"} |-> warnings[p][i][f]]]

InvalidOptionsMessage == ruleObjectMessages(rule.ruleName, invalidOptions(PrimaryOption))

IsStringArray(v) == v.t = "array" /\ \A i \in DOMAIN v.a : v.a[i].t = "string"
HasEnumMode(v) ==
    LET mode == Get(v, "mode") IN
    IF mode.t = "string" THEN mode.s \in {OFF, REQUIRE, BLOCK} ELSE FALSE
PresentButNotStringArray(v, key) == hasOwnProperty(v, key) /\ ~IsStringArray(v.o[key])

\* "fails shape validation", in the words of the specification.
FailsShapeValidation(v) ==
    /\ v.t = "object"
    /\ \/ ~HasEnumMode(v)
       \/ PresentButNotStringArray(v, "fileExceptions")
       \/ PresentButNotStringArray(v, "lineExceptions")

\* C1: a pass with options that fail shape validation reports exactly one
\* violation, the invalid-options message, whatever the stylesheet holds.
C1_MalformedOptionsOneViolation ==
    \A p \in PassIds :
        (IsDefaultRule /\ Done(p) /\ FailsShapeValidation(PrimaryOption))
            => /\ Len(warnings[p]) = 1
               /\ warnings[p][1].message = InvalidOptionsMessage

IsDisabledOption(v) ==
    \/ v = Bool(FALSE)
    \/ v = Undefined
    \/ v.t = "object" /\ Get(v, "mode") = Str(OFF)

\* C2: with a primary option that is false, absent or an object with mode
\* "off", a pass reports nothing and never calls the wrapped rule callback.
C2_DisabledReportsNothing ==
    \A p \in PassIds :
        (IsDefaultRule /\ Started(p) /\ IsDisabledOption(PrimaryOption))
            => /\ warnings[p] = <<>>
               /\ ~passes[p].executionInfo.invoked
               /\ Done(p)

C2_Witness ==
    \E p \in PassIds :
        /\ IsDefaultRule /\ Done(p)
        /\ PrimaryOption = Obj(Str(OFF), Absent, Bool(TRUE), Absent)
        /\ passes[p].root = <<Import(<<"c">>)>>

IsValidActive(v) ==
    /\ v.t = "object"
    /\ isValidDefaultOptionsObject(v).ret
    /\ Get(v, "mode") \in {Str(REQUIRE), Str(BLOCK)}

\* The file's path matches a file exception that compiled.
PathMatchesFileException(p, path) ==
    \E i \in DOMAIN activation.optionsCallbackResult.parsedFileExceptions :
        LET exception == activation.optionsCallbackResult.parsedFileExceptions[i] IN
        exception.kind = "RegExp" /\ Matches(path, exception)

FileIsExempt(p) ==
    /\ passes[p].result.from # Undefined
    /\ PathMatchesFileException(p, passes[p].result.from.s)

\* C3: with valid options of an active mode, a pass over a file whose path
\* matches a compiled file exception reports nothing.
C3_ExemptFileReportsNothing ==
    \A p \in PassIds :
        (IsDefaultRule /\ Started(p) /\ IsValidActive(PrimaryOption) /\ FileIsExempt(p))
            => warnings[p] = <<>> /\ Done(p)

C3_Witness ==
    \E p \in PassIds :
        /\ IsDefaultRule /\ Done(p)
        /\ PrimaryOption = RequireWithExceptions
        /\ FileIsExempt(p)
        /\ PassOutcome(rule, RequireOptions, Undefined, passes[p].root, passes[p].result).reported # <<>>

\* C4: a pass with primary option true reports what a pass with the declared
\* defaultOptions passed explicitly reports, and hands the wrapped callback
\* the same ruleOptions and exceptionRegExps.
C4_TrueActsAsDeclaredDefaults ==
    \A p \in PassIds :
        (IsDefaultRule /\ Done(p) /\ PrimaryOption = Bool(TRUE))
            => LET explicit == PassOutcome(rule, rule.defaultOptions, Undefined,
                                           passes[p].root, passes[p].result)
               IN /\ ~explicit.threw
                  /\ Violations(p) =
                        [i \in DOMAIN explicit.reported |->
                            [ruleName |-> rule.ruleName] @@ explicit.reported[i]]
                  /\ passes[p].executionInfo = explicit.executionInfo

IsMalformedEntry(entry) == globToRegExp(entry, TRUE).threw
FileExceptionEntries == Get(PrimaryOption, "fileExceptions")

\* C5: compiling an exception list with a malformed entry does not raise; the
\* entry's place holds the captured error.
C5_MalformedEntryIsCaptured ==
    (/\ IsDefaultRule
     /\ activation.status # "none"
     /\ FileExceptionEntries.t = "array"
     /\ \E i \in DOMAIN FileExceptionEntries.a : IsMalformedEntry(FileExceptionEntries.a[i]))
        => /\ activation.status = "active"
           /\ \A i \in DOMAIN FileExceptionEntries.a :
                IsMalformedEntry(FileExceptionEntries.a[i])
                    => activation.optionsCallbackResult.parsedFileExceptions[i].kind = "Error"

Before(log, first, second) ==
    \A i \in DOMAIN log : log[i] = second => \E j \in 1..(i - 1) : log[j] = first

\* C6: with object options the file-exception check is decided before the
\* wrapped callback is called, and a file whose path matches a file exception
\* gets no rule-specific violation.
C6_FileCheckBeforeCallback ==
    \A p \in PassIds :
        (IsDefaultRule /\ Started(p) /\ PrimaryOption.t = "object")
            => /\ Before(passes[p].log, "shouldBeExempt", "ruleCallback")
               /\ FileIsExempt(p)
                    => /\ ~passes[p].executionInfo.invoked
                       /\ \A i \in DOMAIN warnings[p] :
                            warnings[p][i].message = InvalidOptionsMessage

C6_Witness ==
    \E p, q \in PassIds :
        /\ IsDefaultRule /\ Done(p) /\ Done(q)
        /\ PrimaryOption = Obj(Str(BLOCK), Absent, Arr(<<GlobAnyDepth>>), Absent)
        /\ FileIsExempt(p)
        /\ passes[p].root = <<Import(<<"d", "/", "_", "c">>), VisibilityDecl>>
        /\ passes[q].result.from = Undefined
        /\ passes[q].executionInfo.invoked

\* C7: two completed passes of one activation over the same stylesheet and
\* file path report the same violations.
C7_SamePassSameViolations ==
    \A p, q \in PassIds :
        (/\ IsDefaultRule /\ Done(p) /\ Done(q)
         /\ passes[p].root = passes[q].root
         /\ passes[p].result.from = passes[q].result.from)
            => Violations(p) = Violations(q)

C7_Witness ==
    \E p, q \in PassIds :
        /\ p # q
        /\ IsDefaultRule /\ Done(p) /\ Done(q)
        /\ PrimaryOption = RequireWithExceptions
        /\ passes[p].root = passes[q].root
        /\ passes[p].result.from = passes[q].result.from
        /\ FileIsExempt(p)
        /\ passes[p].root # <<>>

\* C8: optionsCallback is called once per activation with (primaryOption,
\* secondaryOptions), before any pass, and every pass receives its result;
\* without an optionsCallback every pass receives undefined.
C8_OptionsCallbackOncePerActivation ==
    /\ Len(optionsCallbackCalls) =
            IF rule.hasOptionsCallback /\ activation.status # "none" THEN 1 ELSE 0
    /\ \A i \in DOMAIN optionsCallbackCalls :
            optionsCallbackCalls[i] = <<PrimaryOption, activation.secondaryOptions>>
    /\ \A p \in PassIds :
            Started(p) =>
                /\ activation.status = "active"
                /\ passes[p].ruleExecutionInfo.optionsCallbackResult =
                        IF rule.hasOptionsCallback
                        THEN optionsCallback(rule, PrimaryOption, activation.secondaryOptions).ret
                        ELSE Undefined

C8_Witness ==
    \E p, q \in PassIds :
        /\ p # q /\ Done(p) /\ Done(q)
        /\ rule.kind = "visibility" /\ rule.hasOptionsCallback
        /\ PrimaryOption = Str(<<"on">>)
        /\ activation.secondaryOptions # Undefined
        /\ passes[p].ruleExecutionInfo.optionsCallbackResult = Str(<<"on">>)

IsObjectWithEnumMode(v) == v.t = "object" /\ HasEnumMode(v)

\* C9: isValidDefaultOptionsObject returns a boolean for every input without
\* raising, and false for whatever is not an object with an enumerated mode.
C9_ValidatorAcceptsAnyInput ==
    probe.fn = "isValidDefaultOptionsObject"
        => /\ ~probe.outcome.threw
           /\ ~IsObjectWithEnumMode(probe.input) => probe.outcome.ret = FALSE

\* C10: isValidDefaultOptionsExceptions is true exactly for undefined and for
\* arrays of strings.
C10_ExceptionsValidIffStringArray ==
    probe.fn = "isValidDefaultOptionsExceptions"
        => (probe.outcome.ret <=> (probe.input = Undefined \/ IsStringArray(probe.input)))

\* The file name and prefix the file-name-starts-with rule reads off the
\* @import at index n of pass p.
ImportFileName(p, n) ==
    basename(SelectSeq(extractImportFileParam(passes[p].root[n]).ret, NotQuote))
StartWithOf(p) ==
    LET given == Get(passes[p].executionInfo.ruleOptions, "startWith") IN
    IF Truthy(given) THEN given.s ELSE <<"_">>

\* What the original formatter, messages.k(...args), makes of the arguments
\* behind warning w of pass p.
OriginalMessageText(p, w) ==
    IF rule.kind = "visibility" THEN <<"Try not to use visibility.">>
    ELSE IF w.node = 0 THEN invalidOptions(PrimaryOption)
    ELSE IF Get(passes[p].executionInfo.ruleOptions, "mode") = Str(REQUIRE)
    THEN shouldStartWith(ImportFileName(p, w.node), StartWithOf(p))
    ELSE shouldNotStartWith(ImportFileName(p, w.node), StartWithOf(p))

\* A warning whose message a formatter of the rule's messages made.
MadeByFormatter(w) == rule.kind = "default" \/ w.node # 0

\* C11: the message of every violation made with a formatter handed to the
\* rule callback is the text messages.k of the returned rule object makes of
\* the same arguments: the original text followed by the rule name, once.
C11_MessagesNamespacedOnce ==
    \A p \in PassIds : \A i \in DOMAIN warnings[p] :
        MadeByFormatter(warnings[p][i])
            => /\ warnings[p][i].message =
                    ruleObjectMessages(rule.ruleName, OriginalMessageText(p, warnings[p][i]))
               /\ warnings[p][i].message =
                    OriginalMessageText(p, warnings[p][i]) \o <<" (", rule.ruleName, ")">>

C11_Witness ==
    \E p, q \in PassIds :
        /\ IsDefaultRule /\ Done(p) /\ Done(q)
        /\ PrimaryOption = BlockOptions
        /\ Len(warnings[p]) = 1
        /\ warnings[p][1].message =
                <<Quote, "_", "c", Quote, " import should not start with ", Quote, "_", Quote,
                  " (", FileNameStartsWithRuleName, ")">>
        /\ warnings[q] = <<>>

\* The violations the walk of pass p has handed to reportCallback on its
\* first n nodes.
RECURSIVE ReportedByWalk(_, _)
ReportedByWalk(p, n) ==
    IF n = 0 THEN <<>>
    ELSE ReportedByWalk(p, n - 1)
            \o visit(rule, passes[p].executionInfo, passes[p].root[n], n).ret

\* Every violation pass p has handed to reportCallback so far, in call order.
PassedToReportCallback(p) ==
    ruleCallback(rule, passes[p].ruleExecutionInfo).reported
        \o (IF passes[p].executionInfo.invoked
            THEN ReportedByWalk(p, passes[p].cursor - 1) ELSE <<>>)

\* Warning w is violation v with the rule's name and the result of pass p.
IsForwarded(w, v, p) ==
    /\ DOMAIN w = DOMAIN v \cup {"result", "ruleName"}
    /\ \A f \in DOMAIN v : w[f] = v[f]
    /\ w.ruleName = rule.ruleName
    /\ w.result = passes[p].result.id
    /\ passes[p].result.id = p

\* C12: the warnings of a pass's result are exactly the violations the pass
\* handed to reportCallback, each once and in order, with its own fields
\* unchanged, the rule's ruleName and the result of that same pass.
C12_ViolationsForwardedOnce ==
    \A p \in PassIds :
        IF Started(p)
        THEN /\ Len(warnings[p]) = Len(PassedToReportCallback(p))
             /\ \A i \in DOMAIN warnings[p] :
                    IsForwarded(warnings[p][i], PassedToReportCallback(p)[i], p)
        ELSE warnings[p] = <<>>

C12_Witness ==
    \E p, q \in PassIds :
        /\ p < q /\ Done(p) /\ Done(q)
        /\ IsDefaultRule /\ PrimaryOption = RequireOptions
        /\ passes[p].root # passes[q].root
        /\ Len(warnings[p]) = 1 /\ Len(warnings[q]) = 1
        /\ warnings[q][1].word = NodeToString(Import(<<"d", "/", "c">>))
        /\ warnings[q][1].node = 2

IsImport(node) == node.type = "atrule" /\ node.name = ImportName

\* The path an @import names: the text between its quotes.
ImportedPath(node) ==
    LET quotes == {i \in DOMAIN node.params : IsQuote(node.params[i])}
        first == CHOOSE i \in quotes : \A j \in quotes : i <= j
        last == CHOOSE i \in quotes : \A j \in quotes : j <= i
    IN SubSeq(node.params, first + 1, last - 1)

\* The imported file's name: the path's part after its last "/".
ImportedBasename(node) ==
    LET path == ImportedPath(node) IN SubSeq(path, LastSlash(path, Len(path)) + 1, Len(path))

ConfiguredStartWith(options) ==
    IF hasOwnProperty(options, "startWith") THEN options.o.startWith.s ELSE <<"_">>

HasNoExceptions(options) ==
    /\ options.t = "object"
    /\ ~hasOwnProperty(options, "fileExceptions")
    /\ ~hasOwnProperty(options, "lineExceptions")

FixDisabled == ~Truthy(ContextOrEmpty(activation.context).fix)

\* The message the rule owes the @import node under the options, if any.
BreaksRule(options, node) ==
    \/ /\ Get(options, "mode") = Str(REQUIRE)
       /\ ~startsWith(ImportedBasename(node), ConfiguredStartWith(options))
    \/ /\ Get(options, "mode") = Str(BLOCK)
       /\ startsWith(ImportedBasename(node), ConfiguredStartWith(options))

OwedMessage(options, node) ==
    ruleObjectMessages(rule.ruleName,
        IF Get(options, "mode") = Str(REQUIRE)
        THEN shouldStartWith(ImportedBasename(node), ConfiguredStartWith(options))
        ELSE shouldNotStartWith(ImportedBasename(node), ConfiguredStartWith(options)))

WarningsAt(p, n) == {i \in DOMAIN warnings[p] : warnings[p][i].node = n}

\* C13: with valid options and no exceptions, a pass of the
\* file-name-starts-with rule reports, with the mode's message, exactly the
\* @import rules whose imported file's basename lacks startWith ("require")
\* or has it ("block"); the directories of the path play no part.
C13_ReportsExactlyByBasename ==
    (/\ rule = FileNameStartsWithRule /\ Done(1) /\ FixDisabled
     /\ IsValidActive(PrimaryOption) /\ HasNoExceptions(PrimaryOption))
        => \A n \in DOMAIN passes[1].source :
              LET node == passes[1].source[n] IN
              IF IsImport(node) /\ BreaksRule(PrimaryOption, node)
              THEN /\ Cardinality(WarningsAt(1, n)) = 1
                   /\ \A i \in WarningsAt(1, n) :
                        warnings[1][i].message = OwedMessage(PrimaryOption, node)
              ELSE WarningsAt(1, n) = {}

\* result.opts.from for the codeFilename "path/to/x.css" or
\* "path/to-directory/and/filename.css", whatever directory stylelint runs in.
IsUnderPathDirectory(from) ==
    \E cwd \in WorkingDirectories, f \in {<<"p", "a", "t", "h", "/", "t", "o", "/", "x", ".", "c", "s", "s">>, <<"p", "a", "t", "h", "/", "t", "o", "-", "d", "i", "r", "e", "c", "t", "o", "r", "y", "/", "a", "n", "d", "/", "f", "i", "l", "e", "n", "a", "m", "e", ".", "c", "s", "s">>} :
        from = Str(ResolveCodeFilename(cwd, f))

\* C14: with {mode: "require", startWith: "_", fileExceptions:
\* ["/**/path/**/*.css"]} and the file path/to/x.css (or
\* path/to-directory/and/filename.css), a pass reports nothing, whatever
\* the stylesheet imports.
C14_PathGlobExemptsFile ==
    (/\ rule = FileNameStartsWithRule /\ Started(1)
     /\ PrimaryOption = RequireWithFileExceptions
     /\ IsUnderPathDirectory(passes[1].result.from))
        => /\ warnings[1] = <<>>
           /\ ~passes[1].executionInfo.invoked
           /\ Done(1)

C14_Witness ==
    /\ rule = FileNameStartsWithRule /\ Done(1) /\ FixDisabled
    /\ PrimaryOption = RequireWithFileExceptions
    /\ passes[1].result.from = Str(<<"C", ":", "\\", "r", "\\", "p", "a", "t", "h", "\\", "t", "o", "\\", "x", ".", "c", "s", "s">>)
    /\ passes[1].source = <<Import(PathC), Import(PathOther)>>
    /\ Len(PassOutcome(rule, RequireOptions, Undefined, passes[1].source, passes[1].result).reported) = 2
    /\ warnings[1] = <<>>

HasLineExceptionsOnly(options) ==
    /\ options.t = "object"
    /\ hasOwnProperty(options, "lineExceptions")
    /\ ~hasOwnProperty(options, "fileExceptions")

\* The node's text matches one of the configured line-exception globs.
MatchesLineException(options, node) ==
    \E i \in DOMAIN options.o.lineExceptions.a :
        LET compiled == globToRegExp(options.o.lineExceptions.a[i], FALSE) IN
        ~compiled.threw /\ Matches(NodeToString(node), compiled.ret)

WithoutLineExceptions(options) == [options EXCEPT !.o.lineExceptions = Absent]

\* What the same rule reports on node n of the pass when no line exception
\* is configured.
ReportedUnexempted(p, n) ==
    LET outcome == PassOutcome(rule, WithoutLineExceptions(PrimaryOption), Undefined,
                               passes[p].source, passes[p].result)
    IN {[ruleName |-> rule.ruleName] @@ outcome.reported[i] :
            i \in {j \in DOMAIN outcome.reported : outcome.reported[j].node = n}}

\* C15: with lineExceptions configured, an @import whose text matches a
\* line-exception pattern is not reported, and every other @import of the
\* stylesheet is reported just as it is without line exceptions.
C15_LineExceptionsExemptOnlyTheirLines ==
    (/\ rule = FileNameStartsWithRule /\ Done(1) /\ FixDisabled
     /\ IsValidActive(PrimaryOption) /\ HasLineExceptionsOnly(PrimaryOption))
        => \A n \in DOMAIN passes[1].source :
              LET node == passes[1].source[n] IN
              IF IsImport(node) /\ MatchesLineException(PrimaryOption, node)
              THEN WarningsAt(1, n) = {}
              ELSE {Violations(1)[i] : i \in WarningsAt(1, n)} = ReportedUnexempted(1, n)

C15_Witness ==
    /\ rule = FileNameStartsWithRule /\ Done(1) /\ FixDisabled
    /\ PrimaryOption = RequireWithLineExceptions
    /\ passes[1].source = <<Import(PathC), Import(PathOther)>>
    /\ MatchesLineException(PrimaryOption, passes[1].source[2])
    /\ ReportedUnexempted(1, 2) # {}
    /\ WarningsAt(1, 1) = {1}
    /\ WarningsAt(1, 2) = {}

CalledTestDefaultRule == probe.fn = "testDefaultRule"
AuthorTestsGiven == probe.input.tests

\* The accept cases of the author's first n groups, in the author's order.
RECURSIVE AcceptCasesUpTo(_)
AcceptCasesUpTo(n) ==
    IF n = 0 THEN <<>> ELSE AcceptCasesUpTo(n - 1) \o AuthorTestsGiven[n].accept

\* C16: for each entry of the catalogue of malformed options,
\* testDefaultRule submits one group with that entry as its ruleOptions, no
\* accept case, and as reject cases every accept case of every author group,
\* in order, with its code and the invalid-options message of the entry.
C16_InvalidOptionsGroups ==
    CalledTestDefaultRule =>
        \A k \in DOMAIN invalidOptionsCatalogue :
            LET entry == invalidOptionsCatalogue[k]
                group == Submitted[k]
                expected == AcceptCasesUpTo(Len(AuthorTestsGiven))
            IN /\ Cardinality({g \in DOMAIN Submitted : Submitted[g].ruleOptions = entry}) = 1
               /\ group.ruleOptions = entry
               /\ group.accept = <<>>
               /\ Len(group.reject) = Len(expected)
               /\ \A j \in DOMAIN group.reject :
                    /\ group.reject[j].code = expected[j].code
                    /\ group.reject[j].message =
                            ruleObjectMessages(rule.ruleName, invalidOptions(entry))

C16_Witness ==
    /\ CalledTestDefaultRule
    /\ AuthorTestsGiven = <<GroupBlock, GroupRequire>>
    /\ Len(Submitted[4].reject) = 3
    /\ Submitted[4].reject[3].code = GroupRequire.accept[1].code
    /\ Submitted[4].reject[1].code = GroupBlock.accept[1].code

HasReject(group) == Len(group.reject) > 0

\* The author groups that have a reject case, in the author's order.
RejectingGroups == SelectSeq(AuthorTestsGiven, HasReject)

\* The exception-bypass groups: what is submitted between the groups of
\* createDefaultRuleTests and the author's own.
FirstBypass == Len(invalidOptionsCatalogue) + 3
LastBypass == Len(Submitted) - Len(AuthorTestsGiven)
BypassGroups == SubSeq(Submitted, FirstBypass, LastBypass)

\* C17: every author group with a reject case yields one group per
\* exemption variation, with no reject case and with that group's reject
\* codes, in order, as accept cases; a group without reject case yields none.
C17_BypassGroupsPerVariation ==
    CalledTestDefaultRule =>
        /\ Len(BypassGroups) = Len(ExemptTestVariations) * Len(RejectingGroups)
        /\ \A a \in DOMAIN RejectingGroups : \A v \in DOMAIN ExemptTestVariations :
             LET group == BypassGroups[Len(ExemptTestVariations) * (a - 1) + v]
                 variation == ExemptTestVariations[v]
             IN /\ group.reject = <<>>
                /\ Len(group.accept) = Len(RejectingGroups[a].reject)
                /\ \A j \in DOMAIN group.accept :
                        group.accept[j].code = RejectingGroups[a].reject[j].code
                /\ Has(variation, "fileName")
                        => group.linterOptions.codeFilename = variation.fileName

C17_Witness ==
    /\ CalledTestDefaultRule
    /\ AuthorTestsGiven = <<GroupFileExceptions, GroupRequire>>
    /\ Len(BypassGroups) = 5
    /\ Len(BypassGroups[3].accept) = 2
    /\ BypassGroups[3].accept[2].code = <<Import(PathDirC)>>

\* The pass in progress lints an accept case of submitted group g.
LintsAcceptCaseOf(g) ==
    /\ Started(1)
    /\ Submitted[g].ruleOptions = PrimaryOption
    /\ contextOf(Submitted[g]) = activation.context
    /\ \E i \in DOMAIN Submitted[g].accept : Submitted[g].accept[i].code = passes[1].source
    /\ \E cwd \in WorkingDirectories : passes[1].result.from = fromOf(cwd, Submitted[g])

\* C18: linting an accept case of an exception-bypass group, with the
\* group's ruleOptions and file name, reports nothing.
C18_BypassGroupsPass ==
    CalledTestDefaultRule =>
        \A g \in FirstBypass..LastBypass :
            LintsAcceptCaseOf(g)
                => /\ warnings[1] = <<>>
                   /\ Done(1)
                   /\ passes[1].root = passes[1].source

C18_Witness ==
    /\ CalledTestDefaultRule
    /\ AuthorTestsGiven = <<GroupExceptionsReject>>
    /\ LintsAcceptCaseOf(FirstBypass + 4)
    /\ PrimaryOption.o.fileExceptions = Arr(<<GlobQqqLess, GlobStarBLess>>)
    /\ PrimaryOption.o.lineExceptions = Arr(<<LineGlobOther>>)
    /\ Done(1)
    /\ PassOutcome(rule, GroupExceptionsReject.ruleOptions, Undefined,
                   passes[1].source, passes[1].result).reported # <<>>

\* pluginPath, then pluginPaths.
ExpectedPlugins ==
    (IF Has(probe.input, "pluginPath") THEN <<probe.input.pluginPath>> ELSE <<>>)
        \o (IF Has(probe.input, "pluginPaths") THEN probe.input.pluginPaths ELSE <<>>)

\* C19: every group is submitted with the rule's ruleName and a config whose
\* plugins are pluginPath followed by pluginPaths, or the group's own plugins
\* if its linterOptions.config has some; everything else in the group and in
\* its linterOptions is handed on as it is.
C19_SubmittedWithPlugins ==
    CalledTestDefaultRule =>
        /\ Len(Submitted) = Len(defaultRuleTests(probe.input))
        /\ \A i \in DOMAIN Submitted :
             LET test == defaultRuleTests(probe.input)[i]
                 submitted == Submitted[i]
             IN /\ submitted.ruleName = rule.ruleName
                /\ submitted.linterOptions.config.plugins =
                        IF Has(configOf(test), "plugins") THEN configOf(test).plugins
                        ELSE ExpectedPlugins
                /\ DOMAIN submitted = DOMAIN test \cup {"ruleName", "linterOptions"}
                /\ \A f \in DOMAIN test \ {"linterOptions"} : submitted[f] = test[f]
                /\ DOMAIN submitted.linterOptions = DOMAIN linterOptionsOf(test) \cup {"config"}
                /\ \A f \in DOMAIN linterOptionsOf(test) \ {"config"} :
                        submitted.linterOptions[f] = test.linterOptions[f]
                /\ DOMAIN submitted.linterOptions.config = DOMAIN configOf(test) \cup {"plugins"}
                /\ \A f \in DOMAIN configOf(test) \ {"plugins"} :
                        submitted.linterOptions.config[f] = configOf(test)[f]

C19_Witness ==
    /\ CalledTestDefaultRule
    /\ Has(probe.input, "pluginPath") /\ Has(probe.input, "pluginPaths")
    /\ AuthorTestsGiven = <<GroupBlock, GroupExceptionsReject>>
    /\ Submitted[Len(Submitted)].linterOptions.config = [plugins |-> <<"p", "q">>, quiet |-> TRUE]
    /\ Submitted[Len(Submitted) - 1].linterOptions.config.plugins = <<"own">>
    /\ Submitted[FirstBypass].linterOptions.config.plugins = <<"own">>
    /\ Submitted[1].linterOptions = [config |-> [plugins |-> <<"p", "q">>]]

FixEnabled == Truthy(ContextOrEmpty(activation.context).fix)

\* The @import is exempt when its text matches a configured line exception.
IsLineExempt(options, node) ==
    hasOwnProperty(options, "lineExceptions") /\ MatchesLineException(options, node)

\* The path's directories: everything up to and including its last "/".
ImportedDirectory(node) ==
    LET path == ImportedPath(node) IN SubSeq(path, 1, LastSlash(path, Len(path)))

\* The @import names the same file with startWith put before its basename,
\* and nothing else of the node differs.
IsPrefixedImport(before, after, startWith) ==
    /\ IsImport(after)
    /\ Cardinality({i \in DOMAIN after.params : IsQuote(after.params[i])}) = 2
    /\ ImportedPath(after) =
            ImportedDirectory(before) \o startWith \o ImportedBasename(before)
    /\ after = [before EXCEPT !.params = after.params]

\* C20: with fix enabled and mode "require", a pass of the
\* file-name-starts-with rule that the file exceptions let run reports
\* nothing, and every @import that no line exception exempts and whose
\* basename lacks startWith ends with startWith before its basename and the
\* rest of its path as it was.
C20_FixPrefixesBasename ==
    (/\ rule = FileNameStartsWithRule /\ Done(1) /\ FixEnabled
     /\ IsValidActive(PrimaryOption) /\ Get(PrimaryOption, "mode") = Str(REQUIRE)
     /\ passes[1].executionInfo.invoked)
        => /\ warnings[1] = <<>>
           /\ \A n \in DOMAIN passes[1].source :
                LET node == passes[1].source[n] IN
                (/\ IsImport(node) /\ ~IsLineExempt(PrimaryOption, node)
                 /\ BreaksRule(PrimaryOption, node))
                    => IsPrefixedImport(node, passes[1].root[n],
                                        ConfiguredStartWith(PrimaryOption))

\* The reported part of C20 alone: a fixing pass in "require" mode reports
\* nothing.
C20_FixReportsNothing ==
    (/\ rule = FileNameStartsWithRule /\ Done(1) /\ FixEnabled
     /\ IsValidActive(PrimaryOption) /\ Get(PrimaryOption, "mode") = Str(REQUIRE))
        => warnings[1] = <<>>

C20_SameDirectoryName ==
    /\ rule = FileNameStartsWithRule /\ Done(1) /\ FixEnabled
    /\ PrimaryOption = RequireOptions
    /\ passes[1].source = <<Import(PathSameDirC)>>
    /\ passes[1].root = <<Import(<<"_", "c", "/", "c">>)>>

StartedPasses == {p \in PassIds : Started(p)}

\* What the rule's optionsCallback makes of the options a pass was activated
\* with.
ComputedForPass(p) ==
    LET info == passes[p].ruleExecutionInfo IN
    optionsCallback(rule, info.primaryOption, info.secondaryOptions).ret

\* C21, as the specification words it: the exceptions are compiled anew for
\* every stylesheet pass, so there are at least as many compilations as
\* passes.
C21_RecompiledEveryPass ==
    IsDefaultRule => Cardinality(StartedPasses) <= Len(optionsCallbackCalls)

\* C21: the exceptions are compiled once per plugin activation; every pass
\* of an activation reads the exceptions compiled from that activation's
\* options, and never those compiled for another activation.
C21_CompiledPerActivation ==
    /\ Len(optionsCallbackCalls) <= MaxPasses
    /\ activation.status = "none" <=> optionsCallbackCalls = <<>>
    /\ \A p \in StartedPasses :
            /\ passes[p].ruleExecutionInfo.optionsCallbackResult = ComputedForPass(p)
            /\ \E i \in DOMAIN optionsCallbackCalls :
                    optionsCallbackCalls[i] =
                        <<passes[p].ruleExecutionInfo.primaryOption,
                          passes[p].ruleExecutionInfo.secondaryOptions>>

C21_Witness ==
    /\ Len(optionsCallbackCalls) = 2
    /\ passes[1].phase = "walking" /\ Done(2)
    /\ passes[1].ruleExecutionInfo.primaryOption = RequireWithExceptions
    /\ passes[2].ruleExecutionInfo.primaryOption = BlockWithLineExceptions
    /\ passes[1].ruleExecutionInfo.optionsCallbackResult
            # passes[2].ruleExecutionInfo.optionsCallbackResult
    /\ passes[1].result.from # passes[2].result.from

\* C22: a pass with options that fail shape validation reports a single
\* violation, attached to the stylesheet root, whose message holds the
\* serialized options, and does not call the wrapped rule callback.
C22_InvalidOptionsAtRootOnly ==
    \A p \in PassIds :
        (IsDefaultRule /\ Done(p) /\ FailsShapeValidation(PrimaryOption))
            => /\ Len(warnings[p]) = 1
               /\ \A i \in DOMAIN warnings[p] :
                    /\ warnings[p][i].node = 0
                    /\ IndexOf(warnings[p][i].message, JSONstringify(PrimaryOption), 1) # 0
               /\ ~passes[p].executionInfo.invoked

\* The same for the options the code itself rejects: an active or unknown
\* mode and a validator that says no.
C22_RejectedOptionsAtRootOnly ==
    \A p \in PassIds :
        (/\ IsDefaultRule /\ Done(p) /\ PrimaryOption.t = "object"
         /\ Get(PrimaryOption, "mode") # Str(OFF)
         /\ ~isValidDefaultOptionsObject(PrimaryOption).ret)
            => /\ Len(warnings[p]) = 1
               /\ warnings[p][1].node = 0
               /\ IndexOf(warnings[p][1].message, JSONstringify(PrimaryOption), 1) # 0
               /\ ~passes[p].executionInfo.invoked

\* What the specification expects in an entry's place: the compiled matcher,
\* or the captured error when the entry does not compile.
CompiledOrCaptured(entry, globstar) ==
    LET compiled == globToRegExp(entry, globstar) IN
    IF compiled.threw THEN [kind |-> "Error", name |-> compiled.error] ELSE compiled.ret

CompiledEntryByEntry(list, globstar) ==
    [i \in DOMAIN list.a |-> CompiledOrCaptured(list.a[i], globstar)]

HasExceptionList(options) ==
    /\ options.t = "object"
    /\ \/ Get(options, "fileExceptions").t = "array"
       \/ Get(options, "lineExceptions").t = "array"

\* Each list of the activation's options, compiled entry by entry.
ListsCompiledEntryByEntry ==
    /\ Get(PrimaryOption, "fileExceptions").t = "array"
        => activation.optionsCallbackResult.parsedFileExceptions =
                CompiledEntryByEntry(PrimaryOption.o.fileExceptions, TRUE)
    /\ Get(PrimaryOption, "lineExceptions").t = "array"
        => activation.optionsCallbackResult.parsedLineExceptions =
                CompiledEntryByEntry(PrimaryOption.o.lineExceptions, FALSE)

\* C23: an activation with exception lists compiles each list on its own
\* into a list of the same length and order, every entry the matcher of the
\* string at its position or the captured error; an entry that fails leaves
\* the others as they are.
C23_ListsCompiledEntryByEntry ==
    (IsDefaultRule /\ activation.status # "none" /\ HasExceptionList(PrimaryOption))
        => activation.status = "active" /\ ListsCompiledEntryByEntry

\* The same wherever the activation returns.
C23_CompiledWhenActive ==
    (IsDefaultRule /\ activation.status = "active" /\ HasExceptionList(PrimaryOption))
        => ListsCompiledEntryByEntry

\* The matchers of the entries of an option list that compile, in the
\* list's order; none when the options hold no such list.
SuccessfullyCompiled(list, globstar) ==
    IF list.t # "array" THEN <<>>
    ELSE LET compiles(entry) == ~globToRegExp(entry, globstar).threw
             kept == SelectSeq(list.a, compiles)
         IN [i \in DOMAIN kept |-> globToRegExp(kept[i], globstar).ret]

Rendering(node) ==
    IF node.type = "atrule" THEN <<"@">> \o node.name \o <<" ">> \o node.params
    ELSE node.prop \o <<":", " ">> \o node.value

MatchingPatterns(node, patterns) ==
    {i \in DOMAIN patterns : Matches(Rendering(node), patterns[i])}

\* C25: doesMatchLineExceptions(node, exceptionRegExps) is true exactly when
\* the node's text matches at least one pattern of
\* exceptionRegExps.lineExceptions, and false when that list is empty.
C25_MatchesAnyLineException ==
    probe.fn = "doesMatchLineExceptions"
        => LET patterns == probe.input.exceptionRegExps.lineExceptions IN
           /\ probe.outcome.ret
                <=> Cardinality(MatchingPatterns(probe.input.node, patterns)) >= 1
           /\ patterns = <<>> => probe.outcome.ret = FALSE

C25_Witness ==
    /\ probe.fn = "doesMatchLineExceptions"
    /\ probe.input.node = Import(PathOther)
    /\ Len(probe.input.exceptionRegExps.lineExceptions) = 2
    /\ MatchingPatterns(probe.input.node, probe.input.exceptionRegExps.lineExceptions) = {2}
    /\ probe.outcome.ret = TRUE

\* The file exceptions of the activation's options that compiled.
CompiledFileExceptions == SuccessfullyCompiled(Get(PrimaryOption, "fileExceptions"), TRUE)

MatchesFileException(path) ==
    \E i \in DOMAIN CompiledFileExceptions : Matches(path, CompiledFileExceptions[i])

\* The pass ended at the file-exemption check: nothing reported, the wrapped
\* callback not called.
ExemptedFile(p) ==
    Done(p) /\ ~passes[p].executionInfo.invoked /\ warnings[p] = <<>>

\* C26: with valid options of an active mode, a pass is exempted exactly when
\* its file path, as the platform writes it or with forward slashes, matches
\* a compiled file exception; a pass without a file path is never exempted.
C26_ExemptByEitherPathForm ==
    (/\ rule = FileNameStartsWithRule /\ Started(1)
     /\ IsValidActive(PrimaryOption))
        => LET from == passes[1].result.from IN
           /\ ExemptedFile(1)
                <=> /\ from # Undefined
                    /\ \/ MatchesFileException(from.s)
                       \/ MatchesFileException(toPosixPath(from.s))
           /\ from = Undefined => passes[1].executionInfo.invoked

\* A win32 path exempted in its own form only.
C26_Witness ==
    /\ rule = FileNameStartsWithRule /\ ExemptedFile(1)
    /\ PrimaryOption = RequireWithDriveFileException
    /\ passes[1].source = <<Import(PathC)>>
    /\ passes[1].result.from # Undefined
    /\ MatchesFileException(passes[1].result.from.s)
    /\ ~MatchesFileException(toPosixPath(passes[1].result.from.s))

\* A win32 path exempted in its forward-slash form only.
C26_ForwardSlashFormOnly ==
    /\ rule = FileNameStartsWithRule /\ ExemptedFile(1)
    /\ PrimaryOption = RequireWithFileExceptions
    /\ ~MatchesFileException(passes[1].result.from.s)
    /\ MatchesFileException(toPosixPath(passes[1].result.from.s))

\* The completion of the wrapped callback's visit of node n of pass p.
WrappedCallbackAt(p, n) == visit(rule, passes[p].executionInfo, passes[p].source[n], n)

Failed(p) == passes[p].phase = "threw"

\* The violations the wrapped callback reported on the nodes before n.
RECURSIVE ReportedBefore(_, _)
ReportedBefore(p, n) ==
    IF n <= 1 THEN <<>>
    ELSE ReportedBefore(p, n - 1) \o WrappedCallbackAt(p, n - 1).ret

\* C27: a failure of the wrapped rule callback ends the pass with that same
\* error raised to the host: the walk goes past no node on which the callback
\* fails, and the pass's result holds what the callback reported before the
\* failure and nothing else, no invalid-options violation either.
C27_CallbackFailureReachesHost ==
    \A p \in PassIds :
        (IsDefaultRule /\ Started(p) /\ passes[p].executionInfo.invoked)
            => /\ \A n \in 1..(passes[p].cursor - 1) : ~WrappedCallbackAt(p, n).threw
               /\ Done(p) => \A n \in DOMAIN passes[p].source : ~WrappedCallbackAt(p, n).threw
               /\ Failed(p)
                    => /\ WrappedCallbackAt(p, passes[p].cursor).threw
                       /\ passes[p].error = WrappedCallbackAt(p, passes[p].cursor).error
                       /\ Violations(p) =
                            [i \in DOMAIN ReportedBefore(p, passes[p].cursor) |->
                                [ruleName |-> rule.ruleName]
                                    @@ ReportedBefore(p, passes[p].cursor)[i]]
                       /\ \A i \in DOMAIN warnings[p] :
                            warnings[p][i].message # InvalidOptionsMessage

C27_Witness ==
    /\ rule = FileNameStartsWithRule /\ Failed(1) /\ FixDisabled
    /\ PrimaryOption = RequireOptions
    /\ passes[1].source = <<Import(PathC), ImportUrl>>
    /\ passes[1].cursor = 2
    /\ passes[1].error = "Error"
    /\ Len(warnings[1]) = 1

\* The last fragment of a description: the suffix of the variation that
\* made it.
DescriptionSuffix(case) == case.description[Len(case.description)]

\* C28: testDefaultRule submits, in this order, the seven invalid-options
\* groups, the group for true and the group for false (one accept case with
\* empty code, no reject case), five exception-bypass groups per author group
\* with a reject case in the author's order, then the author's groups in
\* their order; each once, 7 + 2 + 5k + n groups in all.
C28_SubmissionOrder ==
    CalledTestDefaultRule =>
        LET n == Len(AuthorTestsGiven)
            k == Len(RejectingGroups)
        IN /\ Len(Submitted) = 7 + 2 + 5 * k + n
           /\ \A i \in 1..7 :
                /\ Submitted[i].ruleOptions = invalidOptionsCatalogue[i]
                /\ Submitted[i].accept = <<>>
           /\ Submitted[8].ruleOptions = Bool(TRUE)
           /\ Submitted[9].ruleOptions = Bool(FALSE)
           /\ \A i \in {8, 9} :
                /\ Submitted[i].accept = <<[code |-> <<>>]>>
                /\ Submitted[i].reject = <<>>
           /\ \A a \in 1..k : \A v \in 1..5 :
                LET group == Submitted[9 + 5 * (a - 1) + v] IN
                /\ group.reject = <<>>
                /\ Len(group.accept) = Len(RejectingGroups[a].reject)
                /\ \A j \in DOMAIN group.accept :
                    /\ group.accept[j].code = RejectingGroups[a].reject[j].code
                    /\ DescriptionSuffix(group.accept[j])
                            = ExemptTestVariations[v].descriptionSuffix
           /\ \A j \in 1..n :
                LET group == Submitted[9 + 5 * k + j] IN
                /\ group.ruleOptions = AuthorTestsGiven[j].ruleOptions
                /\ group.accept = AuthorTestsGiven[j].accept
                /\ group.reject = AuthorTestsGiven[j].reject

C28_Witness ==
    /\ CalledTestDefaultRule
    /\ AuthorTestsGiven = <<GroupFileExceptions, GroupRequire>>
    /\ Len(Submitted) = 16
    /\ Submitted[15].ruleOptions = RequireWithBothFileExceptions
    /\ Submitted[16].ruleOptions = RequireOptions
    /\ Submitted[12].linterOptions.codeFilename = ExemptTestVariations[3].fileName

\* The group submitted for the author's j-th group. testDefaultRule reads
\* the author's groups for it once every synthesized group is built, so it
\* shows the author's groups as the synthesis left them.
SubmittedAuthorGroup(j) == Submitted[Len(Submitted) - Len(AuthorTestsGiven) + j]

AuthorFields == {"ruleOptions", "description", "accept", "reject"}

\* C29: once the synthesized groups are built, every author group still has
\* the ruleOptions, description, accept cases, reject cases and linterOptions
\* it was given, and is submitted with them.
C29_AuthorGroupsUnmodified ==
    CalledTestDefaultRule =>
        \A j \in DOMAIN AuthorTestsGiven :
            LET given == AuthorTestsGiven[j]
                sent == SubmittedAuthorGroup(j)
            IN /\ \A f \in AuthorFields :
                    /\ Has(sent, f) <=> Has(given, f)
                    /\ Has(given, f) => sent[f] = given[f]
               /\ \A f \in DOMAIN linterOptionsOf(given) \ {"config"} :
                    sent.linterOptions[f] = given.linterOptions[f]
               /\ \A f \in DOMAIN configOf(given) :
                    sent.linterOptions.config[f] = configOf(given)[f]

C29_Witness ==
    /\ CalledTestDefaultRule
    /\ AuthorTestsGiven = <<GroupBlock, GroupDefaultsWithFix>>
    /\ Len(BypassGroups) = 10
    /\ SubmittedAuthorGroup(1).accept = GroupBlock.accept
    /\ Len(SubmittedAuthorGroup(1).accept) = 2
    /\ SubmittedAuthorGroup(1).linterOptions.config.plugins = <<"own">>
    /\ SubmittedAuthorGroup(2).description = GroupDefaultsWithFix.description
    /\ BypassGroups[1].accept # GroupBlock.accept

\* What the execution function reports for the stylesheet and result of pass
\* p when that pass is the only one run.
ReportedAlone(p) ==
    PassOutcome(rule, PrimaryOption, activation.secondaryOptions,
                passes[p].source, passes[p].result)

\* C30: however the passes of one activation interleave, the warnings of
\* each pass are, in order, the violations the pass reports when run alone,
\* all of them once the pass is done, each attributed to the pass's own
\* result; and every pass reads the parsed exceptions the activation
\* computed, which no pass changes.
C30_InterleavedPassesAsAlone ==
    \A p \in PassIds :
        Started(p)
            => LET alone == ReportedAlone(p) IN
               /\ ~alone.threw
               /\ Len(warnings[p]) <= Len(alone.reported)
               /\ Done(p) => Len(warnings[p]) = Len(alone.reported)
               /\ warnings[p] =
                    [i \in DOMAIN warnings[p] |->
                        [result |-> p, ruleName |-> rule.ruleName] @@ alone.reported[i]]
               /\ passes[p].ruleExecutionInfo.optionsCallbackResult =
                    pluginOptionsCallbackResult(rule, PrimaryOption,
                                                activation.secondaryOptions).ret

\* The second pass has run to its end while the first is half way.
C30_Witness ==
    /\ IsDefaultRule /\ PrimaryOption = BlockOptions
    /\ passes[1].phase = "walking" /\ passes[1].cursor = 2
    /\ passes[1].source = <<Import(<<"_", "c">>), Import(<<"d", "/", "c">>)>>
    /\ Len(warnings[1]) = 1
    /\ Done(2)
    /\ passes[2].source = <<Import(<<"d", "/", "_", "c">>), VisibilityDecl>>
    /\ Len(warnings[2]) = 1
    /\ warnings[1][1].result = 1 /\ warnings[2][1].result = 2

====
